---- MODULE Spec2Model ----
(***************************************************************************)
(* Orders API (services/orders-api-python): the order-commit transaction,  *)
(* the transactional outbox, the operations the dispatcher and the         *)
(* publisher run on it, and the consumer of the inventory feedback.        *)
(*                                                                         *)
(* The database is modelled by its committed state (what any other         *)
(* READ COMMITTED transaction observes) plus, per request handler, the     *)
(* write set of its open transaction.  A row UPDATE takes the row lock     *)
(* until the transaction ends, so a second conditional UPDATE of the same  *)
(* product row waits and then evaluates its WHERE clause on the committed  *)
(* row.                                                                    *)
(***************************************************************************)
EXTENDS Integers, Sequences, FiniteSets, TLC

VARIABLES
    stock,          \* products.stock_quantity of every committed product row
    orders,         \* committed rows of table orders, by id
    outbox,         \* committed rows of table outbox_events, by id
    pc,             \* where each request handler is in CreateOrderUseCase.execute
    request,        \* the OrderCreateRequest the handler is serving
    order,          \* the handler's local `order` (Order.create_new)
    outbox_event,   \* the handler's local `outbox_event`
    tx,             \* the handler's transaction: its state and its write set
    result,         \* how the handler's request ended
    nextId,         \* the next value uuid4() hands out
    now,            \* datetime.utcnow() / NOW()
    broker,         \* messages handed to the broker
    brokerUp,       \* whether the broker is reachable
    channel,        \* the publisher's self.channel: none, open or closed
    published,      \* the last publish_event call and how it ended
    consumer,       \* the feedback consumer's tasks: message held, locals, position
    call,           \* the last repository call made by the dispatcher or a stock
                    \* operation, and what it returned
    dispatcher,     \* the outbox dispatcher's loop: position, batch, publish result
    conn,           \* get_connection of each caller: position, attempt, delays slept
    subscription    \* the feedback consumer's channel and connection, and the
                    \* service's startup and shutdown

vars == <<stock, orders, outbox, pc, request, order, outbox_event, tx, result,
          nextId, now, broker, brokerUp, channel, published, consumer, call, dispatcher, conn, subscription>>

dbvars == <<stock, orders, outbox>>

(***************************************************************************)
(* Bounds of the model.                                                    *)
(***************************************************************************)
MaxRequests == 2        \* create-order requests that reach Order.create_new
InitStock == 2          \* stock_quantity of each product row at the start
MaxRetryCalls == 4      \* increment_retry calls modelled per event
MaxAdjust == 2          \* how far update_stock moves a stock_quantity from 0
RaceStock == 2          \* stock of the product the concurrent unit orders contend for
PoolSize == 2           \* connections the pool hands out at a time (max_size)
MaxBatch == 2           \* the largest limit the dispatcher polls with
MaxPublished == 2       \* messages the broker takes from the publisher

(***************************************************************************)
(* Program constants.                                                      *)
(***************************************************************************)
MaxQuantity == 1000         \* "max 1000 items per order"
MaxAmountCents == 10000000  \* "max $100,000 per order", in cents
DefaultMaxRetries == 3
ConnectionMaxRetries == 3   \* max_retries of get_connection
InitialRetryDelay == 100    \* retry_delay of get_connection, in milliseconds      \* OutboxEvent.max_retries

Handlers == {"h1", "h2", "h3"}   \* request handlers (concurrent coroutines)
Workers == {"h1", "h2"}          \* the handlers that serve arbitrary requests
ProductIds == {"p1", "p2"}
MissingProduct == "p0"      \* a product id with no row
NoId == "none"              \* a request field left empty
CustomerIds == {"c1"}

Null == <<>>                \* SQL NULL / Python None for an optional value
Some(v) == <<v>>

OrderId(n) == <<"order", n>>
EventId(n) == <<"event", n>>
EventIds == {EventId(n) : n \in 1..MaxRequests}

\* A request for one unit of product p1.
UnitRequest ==
    [customer_id |-> "c1", product_id |-> "p1", quantity |-> 1, total_amount |-> 9998]

\* Requests that name a customer and a product and keep the limits (the product
\* may have no row).
WellFormedRequests ==
    [customer_id : CustomerIds, product_id : ProductIds \cup {MissingProduct},
     quantity : {1, 2}, total_amount : {9998}]

\* Requests with one field, or every field, outside the business rules.
FaultyRequests ==
    {[UnitRequest EXCEPT !.quantity = q] : q \in {-1, 0, MaxQuantity + 1}}
    \cup {[UnitRequest EXCEPT !.total_amount = a] : a \in {0, MaxAmountCents + 1}}
    \cup {[UnitRequest EXCEPT !.customer_id = NoId],
          [UnitRequest EXCEPT !.product_id = NoId],
          [customer_id |-> NoId, product_id |-> NoId, quantity |-> 0, total_amount |-> 0]}

Requests == WellFormedRequests \cup FaultyRequests

NoRequest == [customer_id |-> NoId, product_id |-> NoId, quantity |-> 0, total_amount |-> 0]

NoOrder ==
    [id |-> <<"none", 0>>, customer_id |-> NoId, product_id |-> NoId,
     quantity |-> 0, total_amount |-> 0, status |-> "NONE", created_at |-> 0]

NoEvent ==
    [id |-> <<"none", 0>>, aggregate_id |-> <<"none", 0>>,
     aggregate_type |-> "NONE", event_type |-> "NONE",
     event_data |-> [order_id |-> <<"none", 0>>, customer_id |-> NoId,
                     product_id |-> NoId, quantity |-> 0, total_amount |-> 0],
     created_at |-> 0, processed_at |-> Null, status |-> "NONE",
     retry_count |-> 0, max_retries |-> 0]

\* No publish_event call was made yet.
NoPublish == [event_id |-> <<"none", 0>>, failed_at |-> "none", returned |-> "none"]

Consumers == {"k1", "k2"}   \* message callbacks running at once (prefetch_count > 1)

\* A consumer task that holds no message.
NoDelivery ==
    [pc |-> "idle", feed |-> "none", body |-> <<>>, order_uuid |-> Null,
     new_status |-> "NONE", success |-> Null, exit |-> "none", fate |-> "none"]

\* No repository call was made yet.
NoCall == [op |-> "none", arg |-> <<"none", 0>>, returned |-> "none", events |-> <<>>,
           again |-> FALSE]

\* The record of a repository call: what was called, with what, what it returned
\* (a bool, or a list of events), and whether the call before it was the same one.
Called(op, arg, returned, events) ==
    [op |-> op, arg |-> arg, returned |-> returned, events |-> events,
     again |-> (call.op = op /\ call.arg = arg)]

\* The dispatcher before its first poll.
NoDispatch == [pc |-> "start", failing |-> {}, batch |-> <<>>, ok |-> "none"]

\* A caller that is not inside get_connection.
NoConnection ==
    [pc |-> "idle", attempt |-> 0, retry_delay |-> 0, slept |-> <<>>, error |-> "none"]

\* The service after a startup that found the broker reachable: lifespan called
\* connect and start_consuming, both queues are consumed.  `inflight` are the
\* tasks that were awaiting update_status when disconnect was called.
Subscribed ==
    [lifespan |-> "serving", channel |-> "open", connection |-> "open",
     consuming |-> TRUE, disconnect |-> "none", inflight |-> {}]

\* The service before lifespan ran: InventoryEventConsumer.__init__ leaves
\* connection, channel and both queues None.
NotStarted ==
    [lifespan |-> "starting", channel |-> "none", connection |-> "none",
     consuming |-> FALSE, disconnect |-> "none", inflight |-> {}]

\* A transaction is none (not begun), started, committed or rolledback; stock_row
\* is the row stock_reserve_query returned, order_row and outbox_row tell whether
\* the INSERTs were executed.
NoTx == [state |-> "none", stock_row |-> Null, order_row |-> FALSE, outbox_row |-> FALSE]

(***************************************************************************)
(* Domain model.                                                           *)
(***************************************************************************)

\* CreateOrderUseCase._validate_order_data: no exception is raised.
validate_order_data_no_upper_limit(req) ==
    /\ ~(req.quantity <= 0)
    /\ ~(req.total_amount <= 0)
    /\ req.customer_id # NoId
    /\ req.product_id # NoId

validate_order_data(req) ==
    /\ ~(req.quantity <= 0)
    /\ ~(req.quantity > MaxQuantity)
    /\ ~(req.total_amount <= 0)
    /\ ~(req.total_amount > MaxAmountCents)
    /\ req.customer_id # NoId
    /\ req.product_id # NoId

\* ProductRepository.get_by_id: the committed row exists.
get_by_id_finds_any(product_id) == TRUE

get_by_id(product_id) == product_id \in DOMAIN stock

\* Order.create_new, with id the value uuid4() returned and t utcnow().
create_new_wrong_status(id, customer_id, product_id, quantity, total_amount, t) ==
    [id |-> id, customer_id |-> customer_id, product_id |-> product_id,
     quantity |-> quantity, total_amount |-> total_amount,
     status |-> "PROCESSING", created_at |-> t]

create_new(id, customer_id, product_id, quantity, total_amount, t) ==
    [id |-> id, customer_id |-> customer_id, product_id |-> product_id,
     quantity |-> quantity, total_amount |-> total_amount,
     status |-> "PENDING", created_at |-> t]

\* OutboxEvent.create_order_created_event, with id the value uuid4() returned.
create_order_created_event_self_reference(o, id, t) ==
    [id |-> id, aggregate_id |-> id, aggregate_type |-> "Order",
     event_type |-> "order.created",
     event_data |-> [order_id |-> o.id, customer_id |-> o.customer_id,
                     product_id |-> o.product_id, quantity |-> o.quantity,
                     total_amount |-> o.total_amount],
     created_at |-> t, processed_at |-> Null, status |-> "PENDING",
     retry_count |-> 0, max_retries |-> DefaultMaxRetries]

create_order_created_event(o, id, t) ==
    [id |-> id, aggregate_id |-> o.id, aggregate_type |-> "Order",
     event_type |-> "order.created",
     event_data |-> [order_id |-> o.id, customer_id |-> o.customer_id,
                     product_id |-> o.product_id, quantity |-> o.quantity,
                     total_amount |-> o.total_amount],
     created_at |-> t, processed_at |-> Null, status |-> "PENDING",
     retry_count |-> 0, max_retries |-> DefaultMaxRetries]

(***************************************************************************)
(* The storage engine: row lock, conditional update, commit and rollback.  *)
(***************************************************************************)

\* The handlers whose open transaction has updated the row of product_id.
RowLockHolders(product_id) ==
    {h \in Handlers : /\ tx[h].state = "started"
                      /\ tx[h].stock_row # Null
                      /\ order[h].product_id = product_id}

\* An UPDATE of a row waits while another open transaction holds its lock.
RowLockIgnored(product_id) == TRUE

RowLockFree(product_id) == RowLockHolders(product_id) = {}

\* stock_reserve_query, WHERE id = $1 AND stock_quantity >= $2: a row matches.
StockReserveMatchesAnyRow(product_id, quantity) == product_id \in DOMAIN stock

StockReserveMatches(product_id, quantity) ==
    /\ product_id \in DOMAIN stock
    /\ stock[product_id] >= quantity

\* stock_reserve_query, SET stock_quantity = stock_quantity - $2 RETURNING it.
stock_reserve_query_one_unit(product_id, quantity) == stock[product_id] - 1

stock_reserve_query(product_id, quantity) == stock[product_id] - quantity

\* Leaving `async with conn.transaction()` normally: COMMIT applies the write set.
TxCommit(h) ==
    /\ stock' = IF tx[h].stock_row # Null
                THEN [stock EXCEPT ![order[h].product_id] = tx[h].stock_row[1]]
                ELSE stock
    /\ orders' = IF tx[h].order_row
                 THEN orders @@ (order[h].id :> order[h])
                 ELSE orders
    /\ outbox' = IF tx[h].outbox_row
                 THEN outbox @@ (outbox_event[h].id :> outbox_event[h])
                 ELSE outbox
    /\ tx' = [tx EXCEPT ![h].state = "committed"]

\* Leaving it by an exception: ROLLBACK drops the write set.
TxRollbackKeepsReservation(h) ==
    /\ stock' = IF tx[h].stock_row # Null
                THEN [stock EXCEPT ![order[h].product_id] = tx[h].stock_row[1]]
                ELSE stock
    /\ UNCHANGED <<orders, outbox>>
    /\ tx' = [tx EXCEPT ![h].state = "rolledback"]

TxRollback(h) ==
    /\ UNCHANGED <<stock, orders, outbox>>
    /\ tx' = [tx EXCEPT ![h].state = "rolledback"]

(***************************************************************************)
(* CreateOrderUseCase.execute and OrderRepository.create_with_outbox_event,*)
(* one action per await of a request handler.                              *)
(***************************************************************************)

InitService(initial_stock, broker_up, consumer_state) ==
    /\ stock = initial_stock
    /\ orders = <<>>
    /\ outbox = <<>>
    /\ pc = [h \in Handlers |-> "idle"]
    /\ request = [h \in Handlers |-> NoRequest]
    /\ order = [h \in Handlers |-> NoOrder]
    /\ outbox_event = [h \in Handlers |-> NoEvent]
    /\ tx = [h \in Handlers |-> NoTx]
    /\ result = [h \in Handlers |-> "none"]
    /\ nextId = 1
    /\ now = 1
    /\ broker = <<>>
    /\ brokerUp = broker_up
    /\ channel = "none"
    /\ published = NoPublish
    /\ consumer = [k \in Consumers |-> NoDelivery]
    /\ call = NoCall
    /\ dispatcher = NoDispatch
    /\ conn = [h \in Handlers |-> NoConnection]
    /\ subscription = consumer_state

\* The service is up: startup found the broker reachable.
InitWith(initial_stock) == InitService(initial_stock, TRUE, Subscribed)

Init == InitWith([p \in ProductIds |-> InitStock])

\* The request fails validation or names no product row: InvalidOrderDataError
\* is raised before any order is built.
RejectedRequests ==
    {req \in Requests : ~validate_order_data(req) \/ ~get_by_id(req.product_id)}

RejectRequest(h) ==
    /\ pc[h] = "idle"
    /\ \E req \in RejectedRequests : request' = [request EXCEPT ![h] = req]
    /\ pc' = [pc EXCEPT ![h] = "done"]
    /\ result' = [result EXCEPT ![h] = "invalid"]
    /\ UNCHANGED <<dbvars, order, outbox_event, tx, nextId, now, broker, brokerUp, channel, published, consumer, call, dispatcher, conn, subscription>>

\* Validation and the product lookup pass; the order and its outbox event are
\* built; a connection is acquired and the transaction begins.
\* dt is the time that passed since the last reading of the clock.
Begin(h, req, dt) ==
    /\ pc[h] = "idle"
    /\ validate_order_data(req)
    /\ get_by_id(req.product_id)
    /\ request' = [request EXCEPT ![h] = req]
    /\ LET o == create_new(OrderId(nextId), req.customer_id, req.product_id,
                           req.quantity, req.total_amount, now + dt)
       IN /\ order' = [order EXCEPT ![h] = o]
          /\ outbox_event' = [outbox_event EXCEPT ![h] =
                 create_order_created_event(o, EventId(nextId), now + dt)]
    /\ now' = now + dt
    /\ nextId' = nextId + 1
    /\ tx' = [tx EXCEPT ![h].state = "started"]
    /\ pc' = [pc EXCEPT ![h] = "inTx"]
    /\ UNCHANGED <<dbvars, result, broker, brokerUp, channel, published, consumer, call, dispatcher, conn, subscription>>

BeginCreateOrder(h) ==
    /\ nextId <= MaxRequests
    /\ \E req \in Requests, dt \in {0, 1} : Begin(h, req, dt)

PlaceUnitOrder(h) == \E dt \in {0, 1} : Begin(h, UnitRequest, dt)

\* conn.fetchrow(stock_reserve_query, product_id, quantity)
ReserveStockSkipsMissingRow(h) ==
    /\ pc[h] = "inTx"
    /\ RowLockFree(order[h].product_id)
    /\ IF StockReserveMatches(order[h].product_id, order[h].quantity)
       THEN /\ tx' = [tx EXCEPT ![h].stock_row =
                        Some(stock_reserve_query(order[h].product_id,
                                                 order[h].quantity))]
            /\ pc' = [pc EXCEPT ![h] = "reserved"]
            /\ UNCHANGED <<dbvars, result>>
       ELSE IF order[h].product_id \notin DOMAIN stock
       THEN /\ pc' = [pc EXCEPT ![h] = "reserved"]
            /\ UNCHANGED <<dbvars, tx, result>>
       ELSE /\ TxRollback(h)
            /\ pc' = [pc EXCEPT ![h] = "done"]
            /\ result' = [result EXCEPT ![h] = "insufficient_stock"]
    /\ UNCHANGED <<request, order, outbox_event, nextId, now, broker, brokerUp, channel, published, consumer, call, dispatcher, conn, subscription>>

ReserveStock(h) ==
    /\ pc[h] = "inTx"
    /\ RowLockFree(order[h].product_id)
    /\ IF StockReserveMatches(order[h].product_id, order[h].quantity)
       THEN /\ tx' = [tx EXCEPT ![h].stock_row =
                        Some(stock_reserve_query(order[h].product_id,
                                                 order[h].quantity))]
            /\ pc' = [pc EXCEPT ![h] = "reserved"]
            /\ UNCHANGED <<dbvars, result>>
       ELSE \* stock_row is None: InsufficientStockError leaves the transaction
            /\ TxRollback(h)
            /\ pc' = [pc EXCEPT ![h] = "done"]
            /\ result' = [result EXCEPT ![h] = "insufficient_stock"]
    /\ UNCHANGED <<request, order, outbox_event, nextId, now, broker, brokerUp, channel, published, consumer, call, dispatcher, conn, subscription>>

\* conn.fetchrow(order_insert_query, ...)
InsertOrderBeforeReservation(h) ==
    /\ pc[h] \in {"inTx", "reserved"}
    /\ order[h].id \notin DOMAIN orders
    /\ tx' = [tx EXCEPT ![h].order_row = TRUE]
    /\ pc' = [pc EXCEPT ![h] = "orderInserted"]
    /\ UNCHANGED <<dbvars, request, order, outbox_event, result, nextId, now, broker,
                   brokerUp, channel, published, consumer, call, dispatcher, conn, subscription>>

InsertOrder(h) ==
    /\ pc[h] = "reserved"
    /\ order[h].id \notin DOMAIN orders
    /\ tx' = [tx EXCEPT ![h].order_row = TRUE]
    /\ pc' = [pc EXCEPT ![h] = "orderInserted"]
    /\ UNCHANGED <<dbvars, request, order, outbox_event, result, nextId, now, broker, brokerUp, channel, published, consumer, call, dispatcher, conn, subscription>>

\* conn.execute(outbox_insert_query, ...)
InsertOutbox(h) ==
    /\ pc[h] = "orderInserted"
    /\ outbox_event[h].id \notin DOMAIN outbox
    /\ tx' = [tx EXCEPT ![h].outbox_row = TRUE]
    /\ pc' = [pc EXCEPT ![h] = "outboxInserted"]
    /\ UNCHANGED <<dbvars, request, order, outbox_event, result, nextId, now, broker, brokerUp, channel, published, consumer, call, dispatcher, conn, subscription>>

\* The transaction block is left normally and the saved order is returned.
CommitTxAndPublish(h) ==
    /\ pc[h] = "outboxInserted"
    /\ TxCommit(h)
    /\ pc' = [pc EXCEPT ![h] = "done"]
    /\ result' = [result EXCEPT ![h] = "ok"]
    /\ broker' = Append(broker, [message_id |-> order[h].id,
                                 routing_key |-> "order.created"])
    /\ UNCHANGED <<request, order, outbox_event, nextId, now, brokerUp, channel, published, consumer, call, dispatcher, conn, subscription>>

CommitTx(h) ==
    /\ pc[h] = "outboxInserted"
    /\ TxCommit(h)
    /\ pc' = [pc EXCEPT ![h] = "done"]
    /\ result' = [result EXCEPT ![h] = "ok"]
    /\ UNCHANGED <<request, order, outbox_event, nextId, now, broker, brokerUp, channel, published, consumer, call, dispatcher, conn, subscription>>

\* A statement of the transaction raises (integrity violation, timeout,
\* connection loss): the transaction block is left by the exception.
FailStatement(h) ==
    /\ pc[h] \in {"inTx", "reserved", "orderInserted", "outboxInserted"}
    /\ TxRollback(h)
    /\ pc' = [pc EXCEPT ![h] = "done"]
    /\ result' = [result EXCEPT ![h] = "error"]
    /\ UNCHANGED <<request, order, outbox_event, nextId, now, broker, brokerUp, channel, published, consumer, call, dispatcher, conn, subscription>>

\* The response (or the HTTP error) is returned; the handler takes the next request.
Respond(h) ==
    /\ pc[h] = "done"
    /\ pc' = [pc EXCEPT ![h] = "idle"]
    /\ request' = [request EXCEPT ![h] = NoRequest]
    /\ order' = [order EXCEPT ![h] = NoOrder]
    /\ outbox_event' = [outbox_event EXCEPT ![h] = NoEvent]
    /\ tx' = [tx EXCEPT ![h] = NoTx]
    /\ result' = [result EXCEPT ![h] = "none"]
    /\ UNCHANGED <<dbvars, nextId, now, broker, brokerUp, channel, published, consumer, call, dispatcher, conn, subscription>>

CreateOrder(h) ==
    \/ RejectRequest(h)
    \/ BeginCreateOrder(h)
    \/ ReserveStock(h)
    \/ InsertOrder(h)
    \/ InsertOutbox(h)
    \/ CommitTx(h)
    \/ FailStatement(h)
    \/ Respond(h)

(***************************************************************************)
(* OutboxEventRepository: the operations the dispatcher calls.             *)
(***************************************************************************)

\* The number of rows of a table that `WHERE id = $1` matches.
RowsMatching(table, id) == IF id \in DOMAIN table THEN 1 ELSE 0

\* result == "UPDATE 1", with result the status conn.execute returned.
execute_result_any(rows) == "True"

execute_result(rows) == IF rows = 1 THEN "True" ELSE "False"

\* mark_as_processed: SET status = 'PROCESSED', processed_at = NOW()
mark_as_processed_row_unmarked(row, t) == [row EXCEPT !.processed_at = Some(t)]

mark_as_processed_row(row, t) ==
    [row EXCEPT !.status = "PROCESSED", !.processed_at = Some(t)]

\* increment_retry: SET retry_count = retry_count + 1, status = CASE WHEN
\* retry_count >= max_retries THEN 'FAILED' ELSE 'PENDING' END.  The right-hand
\* sides of one SET read the row as it was before the UPDATE.
increment_retry_row(row) ==
    [row EXCEPT !.retry_count = row.retry_count + 1,
                !.status = IF row.retry_count >= row.max_retries
                           THEN "FAILED" ELSE "PENDING"]

\* OutboxEvent.increment_retry of the domain model: self.retry_count += 1, then
\* if self.retry_count >= self.max_retries: self.status = "FAILED"
OutboxEvent_increment_retry(event) ==
    LET retry_count == event.retry_count + 1
    IN [event EXCEPT !.retry_count = retry_count,
                     !.status = IF retry_count >= event.max_retries
                                THEN "FAILED" ELSE event.status]

\* The rows get_pending_events selects: WHERE status = 'PENDING'.
PendingEventsAnyStatus == DOMAIN outbox

PendingEvents == {e \in DOMAIN outbox : outbox[e].status = "PENDING"}

Min(a, b) == IF a <= b THEN a ELSE b

Range(s) == {s[i] : i \in DOMAIN s}

\* ORDER BY created_at ASC: every order the selected rows may come in (rows of
\* equal created_at come in either order).
OrderByCreatedAt(rows) ==
    {s \in [1..Cardinality(rows) -> rows] :
        /\ \A i, j \in DOMAIN s : i < j => s[i] # s[j]
        /\ \A i, j \in DOMAIN s :
               i < j => outbox[s[i]].created_at <= outbox[s[j]].created_at}

\* LIMIT $1: the first rows of the ordered result.
LimitIgnored(s, limit) == s

Limit(s, limit) == SubSeq(s, 1, Min(limit, Len(s)))

\* get_pending_events(limit): every list the query may return.
get_pending_events(limit) == {Limit(s, limit) : s \in OrderByCreatedAt(PendingEvents)}

\* Whether some call of get_pending_events returns the event.
ReturnedAsPending(e) ==
    \E limit \in 1..MaxRequests : \E s \in get_pending_events(limit) : e \in Range(s)

\* mark_as_processed(event_id): the UPDATE and the value returned.
mark_as_processed(event_id) ==
    /\ IF event_id \in DOMAIN outbox
       THEN outbox' = [outbox EXCEPT ![event_id] = mark_as_processed_row(@, now)]
       ELSE UNCHANGED outbox
    /\ call' = Called("mark_as_processed", event_id,
                       execute_result(RowsMatching(outbox, event_id)), <<>>)

MarkAsProcessed(event_id) ==
    /\ mark_as_processed(event_id)
    /\ UNCHANGED <<stock, orders, pc, request, order, outbox_event, tx, result, nextId, now,
                   broker, brokerUp, channel, published, consumer, dispatcher, conn, subscription>>

\* A call of get_pending_events(limit) and the list it returns.
GetPendingEvents(limit) ==
    /\ \E events \in get_pending_events(limit) :
           call' = Called("get_pending_events", <<"limit", limit>>, "list", events)
    /\ UNCHANGED <<stock, orders, outbox, pc, request, order, outbox_event, tx, result,
                   nextId, now, broker, brokerUp, channel, published, consumer,
                   dispatcher, conn, subscription>>

\* increment_retry(event_id): the UPDATE and the value returned.
increment_retry(event_id) ==
    /\ IF event_id \in DOMAIN outbox
       THEN outbox' = [outbox EXCEPT ![event_id] = increment_retry_row(@)]
       ELSE UNCHANGED outbox
    /\ call' = Called("increment_retry", event_id,
                       execute_result(RowsMatching(outbox, event_id)), <<>>)

IncrementRetry(event_id) ==
    /\ event_id \in DOMAIN outbox => outbox[event_id].retry_count < MaxRetryCalls
    /\ increment_retry(event_id)
    /\ UNCHANGED <<stock, orders, pc, request, order, outbox_event, tx, result, nextId, now,
                   broker, brokerUp, channel, published, consumer, dispatcher, conn, subscription>>

(***************************************************************************)
(* RabbitMQEventPublisher.publish_event and the broker.                    *)
(***************************************************************************)

\* str(uuid): the text form of a UUID; distinct UUIDs have distinct texts.
str(uuid) == <<"str", uuid[1], uuid[2]>>

\* The exchanges of the broker: the default exchange routes a message to the
\* queue whose name is the routing key, amq.topic to the queues bound to it.
DefaultExchange == "(default)"
TopicExchange == "amq.topic"

\* _get_routing_key: routing_keys.get(event_type, event_type)
routing_keys ==
    [t \in {"order.created", "payment.authorized", "payment.declined",
            "inventory.reserved", "inventory.rejected", "notification.sent"} |-> t]

get_routing_key(event_type) ==
    IF event_type \in DOMAIN routing_keys THEN routing_keys[event_type] ELSE event_type

\* The Message publish_event builds and the place it is published to.
MessageWithAggregateId(event) ==
    [message_id |-> str(event.aggregate_id), delivery_mode |-> "PERSISTENT",
     exchange |-> DefaultExchange, routing_key |-> get_routing_key(event.event_type),
     headers |-> [event_type |-> event.event_type,
                  aggregate_id |-> str(event.aggregate_id),
                  aggregate_type |-> event.aggregate_type],
     body |-> event.event_data]

Message(event) ==
    [message_id |-> str(event.id), delivery_mode |-> "PERSISTENT",
     exchange |-> DefaultExchange, routing_key |-> get_routing_key(event.event_type),
     headers |-> [event_type |-> event.event_type,
                  aggregate_id |-> str(event.aggregate_id),
                  aggregate_type |-> event.aggregate_type],
     body |-> event.event_data]

\* What can go wrong inside publish_event.
PublishFaults == {"none", "connect", "serialize", "send"}

\* publish_event up to the send: whether connect() is called and succeeds,
\* whether the message is built, whether the broker takes it.
Connects(fault) == channel # "open"
Connected(fault) == Connects(fault) => (brokerUp /\ fault # "connect")
Serialized(fault) == Connected(fault) /\ fault # "serialize"
Sent(fault) == Serialized(fault) /\ brokerUp /\ fault # "send"

\* The statement of publish_event that raised, if any.
FailedAt(fault) ==
    IF ~Connected(fault) THEN "connect"
    ELSE IF ~Serialized(fault) THEN "serialize"
    ELSE IF ~Sent(fault) THEN "send"
    ELSE "none"

\* The value publish_event returns: every Exception is caught and gives False.
publish_event_propagates(fault) ==
    IF Sent(fault) THEN "True"
    ELSE IF ~Connected(fault) THEN "raise" ELSE "False"

publish_event_returns(fault) == IF Sent(fault) THEN "True" ELSE "False"

\* publish_event(event) for an event the dispatcher read from the outbox.
PublishEvent(event_id, fault) ==
    /\ event_id \in DOMAIN outbox
    /\ Len(broker) < MaxPublished
    /\ channel' = IF Connects(fault) /\ Connected(fault) THEN "open" ELSE channel
    /\ broker' = IF Sent(fault) THEN Append(broker, Message(outbox[event_id])) ELSE broker
    /\ published' = [event_id |-> event_id, failed_at |-> FailedAt(fault),
                     returned |-> publish_event_returns(fault)]
    /\ UNCHANGED <<dbvars, pc, request, order, outbox_event, tx, result, nextId, now, brokerUp,
                   consumer, call, dispatcher, conn, subscription>>

\* The broker becomes unreachable, or reachable again; an open channel may be
\* closed by the outage.
BrokerOutage ==
    /\ brokerUp' = ~brokerUp
    /\ channel' \in IF brokerUp /\ channel = "open" THEN {"open", "closed"} ELSE {channel}
    /\ UNCHANGED <<dbvars, pc, request, order, outbox_event, tx, result, nextId, now, broker,
                   published, consumer, call, dispatcher, conn, subscription>>

(***************************************************************************)
(* The outbox dispatcher, a separate process: it polls get_pending_events, *)
(* publishes each event of the batch in turn and calls mark_as_processed   *)
(* when the publish succeeded, increment_retry when it failed.             *)
(***************************************************************************)

\* The dispatcher starts; `failing` are the events whose publish fails every time.
DispatcherStart ==
    /\ dispatcher.pc = "start"
    /\ \E failing \in SUBSET EventIds :
           dispatcher' = [dispatcher EXCEPT !.pc = "poll", !.failing = failing]
    /\ UNCHANGED <<dbvars, pc, request, order, outbox_event, tx, result, nextId, now,
                   broker, brokerUp, channel, published, consumer, call, conn, subscription>>

\* batch = get_pending_events(limit)
DispatcherPoll(limit) ==
    /\ dispatcher.pc = "poll"
    /\ \E events \in get_pending_events(limit) :
           /\ dispatcher' = [dispatcher EXCEPT
                                 !.pc = IF events = <<>> THEN "poll" ELSE "publish",
                                 !.batch = events]
           /\ call' = Called("get_pending_events", <<"limit", limit>>, "list", events)
    /\ UNCHANGED <<dbvars, pc, request, order, outbox_event, tx, result, nextId, now,
                   broker, brokerUp, channel, published, consumer, conn, subscription>>

\* ok = publish(event) for the first event of the batch not handled yet.
DispatcherPublish ==
    /\ dispatcher.pc = "publish"
    /\ dispatcher' = [dispatcher EXCEPT
                          !.pc = "record",
                          !.ok = IF Head(dispatcher.batch) \in dispatcher.failing
                                 THEN "False" ELSE "True"]
    /\ UNCHANGED <<dbvars, pc, request, order, outbox_event, tx, result, nextId, now,
                   broker, brokerUp, channel, published, consumer, call, conn, subscription>>

\* mark_as_processed(event.id) if ok, increment_retry(event.id) if not; then the
\* next event of the batch, or the next poll.
DispatcherRecord ==
    /\ dispatcher.pc = "record"
    /\ IF dispatcher.ok = "True"
       THEN mark_as_processed(Head(dispatcher.batch))
       ELSE increment_retry(Head(dispatcher.batch))
    /\ dispatcher' = [dispatcher EXCEPT
                          !.pc = IF Tail(dispatcher.batch) = <<>> THEN "poll" ELSE "publish",
                          !.batch = Tail(dispatcher.batch),
                          !.ok = "none"]
    /\ UNCHANGED <<stock, orders, pc, request, order, outbox_event, tx, result, nextId, now,
                   broker, brokerUp, channel, published, consumer, conn, subscription>>

Dispatcher ==
    \/ DispatcherStart
    \/ \E limit \in 1..MaxBatch : DispatcherPoll(limit)
    \/ DispatcherPublish
    \/ DispatcherRecord

(***************************************************************************)
(* InventoryEventConsumer: process_reserved_message and                    *)
(* process_rejected_message, one task per delivered message.               *)
(***************************************************************************)

\* The two feeds: queues inventory.reserved.orders and inventory.rejected.orders.
Feeds == {"reserved", "rejected"}

UnknownOrder == OrderId(0)      \* the text of a UUID that names no order
NotAUuid == <<"text", 0>>       \* a string that is not the text of a UUID
NotAString == <<"number", 0>>   \* a JSON value that is not a string

\* The order ids feedback can name: the inventory service answers order.created
\* events, which exist only for committed orders.
PayloadIds == DOMAIN orders \cup {UnknownOrder, NotAUuid, NotAString}

\* Message bodies: bytes that are not JSON, JSON that is not an object, and JSON
\* objects with the keys orderId, order_id and status present or absent.
FeedbackBodies ==
    {[json |-> j, orderId |-> Null, order_id |-> Null, status |-> Null] :
         j \in {"unparseable", "not_object"}}
    \cup [json : {"object"}, orderId : {Null}, order_id : {Null} \cup {Some(v) : v \in PayloadIds},
          status : {Null, Some("reserved"), Some("rejected")}]
    \cup [json : {"object"}, orderId : {Some(v) : v \in DOMAIN orders},
          order_id : {Null, Some(NotAUuid)}, status : {Some("reserved"), Some("rejected")}]

\* event_data.get("orderId") or event_data.get("order_id")
OrFirstOnly(a, b) == a

Or(a, b) == IF a # Null THEN a ELSE b

\* The status each feed expects and the order status it sets.
expected_status(feed) == feed

new_status_swapped(feed) == IF feed = "reserved" THEN "FAILED" ELSE "COMPLETED"

new_status(feed) == IF feed = "reserved" THEN "COMPLETED" ELSE "FAILED"

\* status != "reserved" (or "rejected"): the message is not one of the feed.
StatusAlwaysMatches(feed, status) == TRUE

StatusMatches(feed, status) == status = Some(expected_status(feed))

\* The handler from json.loads to its first await: it returns (the message is
\* dropped), raises out of the handler, or goes on to update_status.
\* JSONDecodeError and ValueError are caught and logged; any other exception
\* (AttributeError of .get on a non-object or of UUID() on a non-string) is
\* re-raised.
process_message(feed, body) ==
    LET order_id == Or(body.orderId, body.order_id)
        drop == [step |-> "return", order_uuid |-> Null, new_status |-> "NONE"]
        raise == [step |-> "raise", order_uuid |-> Null, new_status |-> "NONE"]
    IN IF body.json = "unparseable" THEN drop
       ELSE IF body.json = "not_object" THEN raise
       ELSE IF order_id = Null THEN drop
       ELSE IF ~StatusMatches(feed, body.status) THEN drop
       ELSE IF order_id[1] = NotAUuid THEN drop
       ELSE IF order_id[1] = NotAString THEN raise
       ELSE [step |-> "update", order_uuid |-> order_id, new_status |-> new_status(feed)]

\* The broker delivers a message on the consumed queue of an open channel and
\* the callback runs to its first await.
Receive(k, feed, body) ==
    /\ subscription.consuming /\ subscription.channel = "open"
    /\ consumer[k].pc = "idle"
    /\ LET r == process_message(feed, body)
       IN consumer' = [consumer EXCEPT ![k] =
              [pc |-> IF r.step = "update" THEN "updating" ELSE "exiting",
               feed |-> feed, body |-> body,
               order_uuid |-> r.order_uuid, new_status |-> r.new_status,
               success |-> Null,
               exit |-> IF r.step = "update" THEN "none" ELSE r.step,
               fate |-> "none"]]
    /\ UNCHANGED <<dbvars, pc, request, order, outbox_event, tx, result, nextId, now,
                   broker, brokerUp, channel, published, call, dispatcher, conn, subscription>>

\* OrderRepository.update_status: UPDATE orders SET status = $2 WHERE id = $1
update_status_row_if_pending(row, status) ==
    IF row.status = "PENDING" THEN [row EXCEPT !.status = status] ELSE row

update_status_advance(row, status) ==
    [row EXCEPT !.status = IF row.status = status THEN "PROCESSING" ELSE status]

update_status_row(row, status) == [row EXCEPT !.status = status]

\* The rows the UPDATE changes: WHERE id = $1.
UpdatedRowsAll(id) == DOMAIN orders

UpdatedRows(id) == {o \in DOMAIN orders : o = id}

\* return result == "UPDATE 1"
update_status_returns_true(rows) == TRUE

update_status_returns(rows) == Cardinality(rows) = 1

\* update_status returns: True for "UPDATE 1", False when no row has the id.
UpdateStatus(k) ==
    /\ consumer[k].pc = "updating"
    /\ LET id == consumer[k].order_uuid[1]
       IN /\ orders' = [o \in DOMAIN orders |->
                           IF o \in UpdatedRows(id)
                           THEN update_status_row(orders[o], consumer[k].new_status)
                           ELSE orders[o]]
          /\ consumer' = [consumer EXCEPT
                              ![k].pc = "exiting",
                              ![k].success = Some(update_status_returns(UpdatedRows(id))),
                              ![k].exit = "return"]
    /\ UNCHANGED <<stock, outbox, pc, request, order, outbox_event, tx, result, nextId, now,
                   broker, brokerUp, channel, published, call, dispatcher, conn, subscription>>

\* update_status raises (no connection, statement failed): nothing is written
\* and the exception is re-raised out of the handler.
UpdateStatusRaises(k) ==
    /\ consumer[k].pc = "updating"
    /\ consumer' = [consumer EXCEPT ![k].pc = "exiting", ![k].exit = "raise"]
    /\ UNCHANGED <<dbvars, pc, request, order, outbox_event, tx, result, nextId, now,
                   broker, brokerUp, channel, published, call, dispatcher, conn, subscription>>

\* message.process() is entered with its defaults: requeue=False.
ProcessRequeue == FALSE

\* Leaving `async with message.process()`: the body of the block has ended.
BlockLeftEarly(k) == consumer[k].pc \in {"updating", "exiting"}

BlockLeft(k) == consumer[k].pc = "exiting"

\* On leaving the block the message is acked after a normal exit and rejected,
\* with requeue as given to process(), after an exception; a message rejected
\* without requeue is discarded by the broker.
\* On a channel that is no longer open neither the ack nor the reject reaches
\* the broker: the delivery stays unacknowledged and the broker requeues it.
ProcessExit(k) ==
    /\ BlockLeft(k)
    /\ consumer' = [consumer EXCEPT
           ![k].pc = "idle",
           ![k].fate = IF subscription.channel # "open" THEN "requeued"
                       ELSE IF consumer[k].exit = "raise"
                       THEN (IF ProcessRequeue THEN "requeued" ELSE "discarded")
                       ELSE "acked"]
    /\ UNCHANGED <<dbvars, pc, request, order, outbox_event, tx, result, nextId, now,
                   broker, brokerUp, channel, published, call, dispatcher, conn, subscription>>

(***************************************************************************)
(* ProductRepository: the stock operations outside the order transaction,  *)
(* each a single autocommitted statement.                                  *)
(***************************************************************************)

Quantities == {0, 1, 2}
Deltas == {-2, -1, 1, 2}

\* reserve_stock: False when fetchrow returned no row, True otherwise.
reserve_stock_returns_true(row_returned) == "True"

reserve_stock_returns(row_returned) == IF row_returned THEN "True" ELSE "False"

\* update_stock: False when the row returned has a negative stock_quantity.
update_stock_returns(new_quantity) == IF new_quantity < 0 THEN "False" ELSE "True"

\* reserve_stock(product_id, quantity)
ReserveStockOp(product_id, quantity) ==
    /\ RowLockFree(product_id)
    /\ stock' = IF StockReserveMatches(product_id, quantity)
                THEN [stock EXCEPT ![product_id] =
                         stock_reserve_query(product_id, quantity)]
                ELSE stock
    /\ call' = Called("reserve_stock", <<product_id, quantity>>,
                       reserve_stock_returns(
                                 StockReserveMatches(product_id, quantity)), <<>>)
    /\ UNCHANGED <<orders, outbox, pc, request, order, outbox_event, tx, result, nextId, now,
                   broker, brokerUp, channel, published, consumer, dispatcher, conn, subscription>>

\* update_stock(product_id, quantity): SET stock_quantity = stock_quantity + $2
\* WHERE id = $1; False is returned when the stored result is negative.
UpdateStock(product_id, quantity) ==
    /\ RowLockFree(product_id)
    /\ product_id \in DOMAIN stock
    /\ stock[product_id] + quantity >= -MaxAdjust
    /\ stock[product_id] + quantity <= InitStock + MaxAdjust
    /\ stock' = [stock EXCEPT ![product_id] = stock[product_id] + quantity]
    /\ call' = Called("update_stock", <<product_id, quantity>>,
                       update_stock_returns(stock[product_id] + quantity), <<>>)
    /\ UNCHANGED <<orders, outbox, pc, request, order, outbox_event, tx, result, nextId, now,
                   broker, brokerUp, channel, published, consumer, dispatcher, conn, subscription>>

(***************************************************************************)
(* DatabaseManager.get_connection: up to max_retries attempts to acquire a *)
(* connection from the pool, sleeping between them.                        *)
(***************************************************************************)

\* The callers holding a connection of the pool.
InUse == {h \in Handlers : conn[h].pc = "yielded"}

\* What self._pool.acquire() may do once the pool has a free holder: hand out
\* a connection, or fail to open one.
AcquireOutcomes == {"connection", "TooManyConnectionsError", "OtherError"}

\* retry_delay *= 2
retry_delay_unchanged(retry_delay) == retry_delay

retry_delay_doubled(retry_delay) == retry_delay * 2

\* attempt < max_retries - 1
MayRetryAlways(attempt) == TRUE

MayRetry(attempt) == attempt < ConnectionMaxRetries - 1

\* async with db_manager.get_connection(): the for loop is entered.
GetConnection(h) ==
    /\ conn[h].pc = "idle"
    /\ conn' = [conn EXCEPT ![h] = [pc |-> "acquiring", attempt |-> 0,
                                    retry_delay |-> InitialRetryDelay, slept |-> <<>>,
                                    error |-> "none"]]
    /\ UNCHANGED <<dbvars, pc, request, order, outbox_event, tx, result, nextId, now,
                   broker, brokerUp, channel, published, consumer, call, dispatcher, subscription>>

\* One attempt: self._pool.acquire() waits for a free holder of the pool, then
\* yields a connection or raises.  TooManyConnectionsError is caught and, unless
\* this was the last attempt, followed by a sleep; any other error propagates.
Acquire(h, outcome) ==
    /\ conn[h].pc = "acquiring"
    /\ conn[h].attempt < ConnectionMaxRetries
    /\ Cardinality(InUse) < PoolSize
    /\ conn' = [conn EXCEPT ![h] =
           CASE outcome = "connection" -> [@ EXCEPT !.pc = "yielded"]
             [] outcome = "OtherError" -> [@ EXCEPT !.pc = "raised", !.error = outcome]
             [] outcome = "TooManyConnectionsError" ->
                    IF MayRetry(@.attempt)
                    THEN [@ EXCEPT !.pc = "sleeping"]
                    ELSE [@ EXCEPT !.pc = "raised", !.error = outcome]]
    /\ UNCHANGED <<dbvars, pc, request, order, outbox_event, tx, result, nextId, now,
                   broker, brokerUp, channel, published, consumer, call, dispatcher, subscription>>

\* await asyncio.sleep(retry_delay); retry_delay *= 2; the next attempt.
Sleep(h) ==
    /\ conn[h].pc = "sleeping"
    /\ conn' = [conn EXCEPT ![h] =
           [@ EXCEPT !.pc = "acquiring",
                     !.attempt = @ + 1,
                     !.slept = Append(@, conn[h].retry_delay),
                     !.retry_delay = retry_delay_doubled(@)]]
    /\ UNCHANGED <<dbvars, pc, request, order, outbox_event, tx, result, nextId, now,
                   broker, brokerUp, channel, published, consumer, call, dispatcher, subscription>>

\* The caller's block ends and the connection goes back to the pool, or the
\* caller has seen the error; get_connection is over.
Leave(h) ==
    /\ conn[h].pc \in {"yielded", "raised"}
    /\ conn' = [conn EXCEPT ![h] = NoConnection]
    /\ UNCHANGED <<dbvars, pc, request, order, outbox_event, tx, result, nextId, now,
                   broker, brokerUp, channel, published, consumer, call, dispatcher, subscription>>

(***************************************************************************)
(* Specifications.                                                         *)
(***************************************************************************)

\* Request handlers serving any requests, concurrently.
Next == \E h \in Workers : CreateOrder(h)

Spec == Init /\ [][Next]_vars

\* One request handler placing unit orders, and the dispatcher's calls on the outbox.
NextOutbox ==
    \/ nextId <= MaxRequests /\ PlaceUnitOrder("h1")
    \/ ReserveStock("h1")
    \/ InsertOrder("h1")
    \/ InsertOutbox("h1")
    \/ CommitTx("h1")
    \/ Respond("h1")
    \/ \E event_id \in EventIds : MarkAsProcessed(event_id)
    \/ \E event_id \in EventIds : IncrementRetry(event_id)

SpecOutbox == Init /\ [][NextOutbox]_vars

\* A request handler placing unit orders, the publisher as the dispatcher calls
\* it, and broker outages.
NextBroker ==
    \/ RejectRequest("h1")
    \/ nextId <= MaxRequests /\ PlaceUnitOrder("h1")
    \/ ReserveStock("h1")
    \/ InsertOrder("h1")
    \/ InsertOutbox("h1")
    \/ CommitTx("h1")
    \/ FailStatement("h1")
    \/ Respond("h1")
    \/ \E event_id \in EventIds, fault \in PublishFaults : PublishEvent(event_id, fault)
    \/ BrokerOutage

SpecBroker == Init /\ [][NextBroker]_vars

\* A request handler placing unit orders and the stock operations of
\* ProductRepository.
NextLedger ==
    \/ nextId <= MaxRequests /\ PlaceUnitOrder("h1")
    \/ ReserveStock("h1")
    \/ InsertOrder("h1")
    \/ InsertOutbox("h1")
    \/ CommitTx("h1")
    \/ FailStatement("h1")
    \/ Respond("h1")
    \/ \E product_id \in ProductIds \cup {MissingProduct}, quantity \in Quantities :
           ReserveStockOp(product_id, quantity)
    \/ \E product_id \in ProductIds, quantity \in Deltas :
           UpdateStock(product_id, quantity)

SpecLedger == Init /\ [][NextLedger]_vars

\* A request handler placing unit orders and the dispatcher draining the outbox;
\* the dispatcher keeps running.
NextDispatch ==
    \/ nextId <= MaxRequests /\ PlaceUnitOrder("h1")
    \/ ReserveStock("h1")
    \/ InsertOrder("h1")
    \/ InsertOutbox("h1")
    \/ CommitTx("h1")
    \/ Respond("h1")
    \/ Dispatcher

SpecDispatch == Init /\ [][NextDispatch]_vars /\ WF_vars(Dispatcher)

\* Callers of get_connection sharing the pool.  A caller that holds a connection
\* gives it back, a sleep ends, and a caller waiting in acquire() is served when
\* holders keep becoming free (the pool serves its waiters in turn).
NextConnection ==
    \E h \in Handlers :
        \/ GetConnection(h)
        \/ \E outcome \in AcquireOutcomes : Acquire(h, outcome)
        \/ Sleep(h)
        \/ Leave(h)

SpecConnection ==
    /\ Init
    /\ [][NextConnection]_vars
    /\ \A h \in Handlers :
           /\ WF_vars(Sleep(h))
           /\ WF_vars(Leave(h))
           /\ SF_vars(\E outcome \in AcquireOutcomes : Acquire(h, outcome))

\* What the dispatcher did to a stored event so far, and the times orders were
\* placed at.
Histories == {"untouched", "retried", "processed", "failed"}
Times == {1, 2}

RECURSIVE Retried(_, _)
\* The row after k calls of increment_retry.
Retried(row, k) == IF k = 0 THEN row ELSE Retried(increment_retry_row(row), k - 1)

\* The unit order number n placed at time t, and its event after the history.
PlacedOrder(n, t) ==
    create_new(OrderId(n), UnitRequest.customer_id, UnitRequest.product_id,
               UnitRequest.quantity, UnitRequest.total_amount, t)

StoredEvent(n, t, history) ==
    LET event == create_order_created_event(PlacedOrder(n, t), EventId(n), t)
    IN CASE history = "untouched" -> event
         [] history = "retried"   -> Retried(event, 1)
         [] history = "processed" -> mark_as_processed_row(event, t)
         [] history = "failed"    -> Retried(event, event.max_retries + 1)

\* The database after n unit orders were committed, placed at times at[i] in the
\* order of their ids, and the dispatcher went through history[i] with each event.
InitPending ==
    \E n \in 0..Min(MaxRequests, InitStock) :
        \E at \in [1..n -> Times], history \in [1..n -> Histories] :
            /\ \A i, j \in 1..n : i < j => at[i] <= at[j]
            /\ stock = [p \in ProductIds |->
                           IF p = UnitRequest.product_id
                           THEN InitStock - n * UnitRequest.quantity ELSE InitStock]
            /\ orders = [o \in {OrderId(i) : i \in 1..n} |-> PlacedOrder(o[2], at[o[2]])]
            /\ outbox = [e \in {EventId(i) : i \in 1..n} |->
                            StoredEvent(e[2], at[e[2]], history[e[2]])]
            /\ nextId = n + 1
            /\ now = IF n = 0 THEN 1 ELSE at[n]
            /\ pc = [h \in Handlers |-> "idle"]
            /\ request = [h \in Handlers |-> NoRequest]
            /\ order = [h \in Handlers |-> NoOrder]
            /\ outbox_event = [h \in Handlers |-> NoEvent]
            /\ tx = [h \in Handlers |-> NoTx]
            /\ result = [h \in Handlers |-> "none"]
            /\ broker = <<>>
            /\ brokerUp = TRUE
            /\ channel = "none"
            /\ published = NoPublish
            /\ consumer = [k \in Consumers |-> NoDelivery]
            /\ call = NoCall
            /\ dispatcher = NoDispatch
            /\ conn = [h \in Handlers |-> NoConnection]
            /\ subscription = Subscribed

\* get_pending_events and mark_as_processed called while a request handler
\* places further unit orders.
NextPending ==
    \/ nextId <= MaxRequests /\ PlaceUnitOrder("h1")
    \/ ReserveStock("h1")
    \/ InsertOrder("h1")
    \/ InsertOutbox("h1")
    \/ CommitTx("h1")
    \/ Respond("h1")
    \/ \E limit \in 0..MaxRequests : GetPendingEvents(limit)
    \/ \E event_id \in EventIds : MarkAsProcessed(event_id)

SpecPending == InitPending /\ [][NextPending]_vars

\* A request handler placing unit orders while reserve_stock is called on its own.
NextReserve ==
    \/ nextId <= MaxRequests /\ PlaceUnitOrder("h1")
    \/ ReserveStock("h1")
    \/ InsertOrder("h1")
    \/ InsertOutbox("h1")
    \/ CommitTx("h1")
    \/ FailStatement("h1")
    \/ Respond("h1")
    \/ \E product_id \in ProductIds \cup {MissingProduct}, quantity \in Quantities :
           ReserveStockOp(product_id, quantity)

SpecReserve == Init /\ [][NextReserve]_vars

\* Every handler places one order for one unit of p1, whose stock is RaceStock,
\* at the same time; no statement fails for an infrastructure reason.
InitRace == InitWith([p \in ProductIds |-> RaceStock])

NextRace ==
    \E h \in Handlers :
        \/ result[h] = "none" /\ PlaceUnitOrder(h)
        \/ ReserveStock(h)
        \/ InsertOrder(h)
        \/ InsertOutbox(h)
        \/ CommitTx(h)

SpecRace == InitRace /\ [][NextRace]_vars

\* ProductRepository.delete: DELETE FROM products WHERE id = $1, which waits
\* while an open transaction holds the row's lock.
DeleteProduct(product_id) ==
    /\ RowLockFree(product_id)
    /\ product_id \in DOMAIN stock
    /\ stock' = [p \in DOMAIN stock \ {product_id} |-> stock[p]]
    /\ call' = Called("delete", <<product_id, 0>>, "True", <<>>)
    /\ UNCHANGED <<orders, outbox, pc, request, order, outbox_event, tx, result, nextId, now,
                   broker, brokerUp, channel, published, consumer, dispatcher, conn, subscription>>

\* Unit orders placed by two handlers while products are being deleted.
NextVanish ==
    \/ \E h \in Handlers : nextId <= MaxRequests /\ PlaceUnitOrder(h)
    \/ \E h \in Handlers : ReserveStock(h)
    \/ \E h \in Handlers : InsertOrder(h)
    \/ \E h \in Handlers : InsertOutbox(h)
    \/ \E h \in Handlers : CommitTx(h)
    \/ \E h \in Handlers : Respond(h)
    \/ \E product_id \in ProductIds : DeleteProduct(product_id)

SpecVanish == Init /\ [][NextVanish]_vars

(***************************************************************************)
(* Startup: lifespan awaits connect and start_consuming once, inside a try  *)
(* block whose except clause logs the failure; then the service serves.     *)
(***************************************************************************)
\* The broker is or is not reachable when the service starts.
InitStartup ==
    \E broker_up \in BOOLEAN :
        InitService([p \in ProductIds |-> InitStock], broker_up, NotStarted)

\* connect raises when the broker is unreachable (connect_robust fails on the
\* first connection) and start_consuming is not reached.
Startup ==
    /\ subscription.lifespan = "starting"
    /\ subscription' = IF brokerUp THEN Subscribed
                       ELSE [NotStarted EXCEPT !.lifespan = "serving"]
    /\ UNCHANGED <<dbvars, pc, request, order, outbox_event, tx, result, nextId, now,
                   broker, brokerUp, channel, published, consumer, call, dispatcher, conn>>

\* The inventory service answered the order.created event of a stored order:
\* its message waits in the queue of its feed while the order is PENDING.
Answer(feed, order_id) ==
    [json |-> "object", orderId |-> Some(order_id), order_id |-> Null,
     status |-> Some(feed)]

Feedback(k, order_id) ==
    /\ brokerUp
    /\ order_id \in DOMAIN orders
    /\ orders[order_id].status = "PENDING"
    /\ \E feed \in Feeds : Receive(k, feed, Answer(feed, order_id))

Served == {OrderId(n) : n \in 1..MaxRequests}

NextStartup ==
    \/ Startup
    \/ ~brokerUp /\ BrokerOutage
    \/ subscription.lifespan = "serving" /\ nextId <= MaxRequests /\ PlaceUnitOrder("h1")
    \/ ReserveStock("h1")
    \/ InsertOrder("h1")
    \/ InsertOutbox("h1")
    \/ CommitTx("h1")
    \/ Respond("h1")
    \/ \E order_id \in Served : Feedback("k1", order_id)
    \/ UpdateStatus("k1")
    \/ ProcessExit("k1")

\* The event loop runs every task that can run, and the broker delivers every
\* message of a consumed queue.
SpecStartup ==
    /\ InitStartup
    /\ [][NextStartup]_vars
    /\ WF_vars(Startup)
    /\ \A order_id \in Served : SF_vars(Feedback("k1", order_id))
    /\ WF_vars(UpdateStatus("k1"))
    /\ WF_vars(ProcessExit("k1"))

(***************************************************************************)
(* Shutdown: lifespan calls InventoryEventConsumer.disconnect, which closes *)
(* the channel and then the connection inside one try block whose except    *)
(* clause logs the error.  Handlers that are running keep running.          *)
(***************************************************************************)
\* except Exception as e: self.log_error(...)  -- nothing is re-raised
disconnect_propagates(raised) == IF raised THEN "raised" ELSE "returned"

disconnect_outcome(raised) == "returned"

\* The shutdown half of lifespan: await inventory_consumer.disconnect()
Disconnect ==
    /\ subscription.lifespan = "serving"
    /\ subscription' = [subscription EXCEPT
           !.lifespan = "stopping", !.disconnect = "closing_channel",
           !.inflight = {k \in Consumers : consumer[k].pc = "updating"}]
    /\ UNCHANGED <<dbvars, pc, request, order, outbox_event, tx, result, nextId, now,
                   broker, brokerUp, channel, published, consumer, call, dispatcher, conn>>

\* if self.channel: await self.channel.close()
\* A close that raises leaves the try block: the connection is not closed.
CloseChannel(raised) ==
    /\ subscription.disconnect = "closing_channel"
    /\ IF subscription.channel = "none"
       THEN /\ ~raised
            /\ subscription' = [subscription EXCEPT !.disconnect = "closing_connection"]
       ELSE IF raised
       THEN \E left \in {"open", "closed"} :
                subscription' = [subscription EXCEPT
                    !.channel = left, !.consuming = (left = "open"),
                    !.disconnect = disconnect_outcome(TRUE), !.lifespan = "stopped"]
       ELSE subscription' = [subscription EXCEPT
                !.channel = "closed", !.consuming = FALSE,
                !.disconnect = "closing_connection"]
    /\ UNCHANGED <<dbvars, pc, request, order, outbox_event, tx, result, nextId, now,
                   broker, brokerUp, channel, published, consumer, call, dispatcher, conn>>

\* if self.connection: await self.connection.close()
CloseConnection(raised) ==
    /\ subscription.disconnect = "closing_connection"
    /\ IF subscription.connection = "none"
       THEN /\ ~raised
            /\ subscription' = [subscription EXCEPT
                   !.disconnect = disconnect_outcome(FALSE), !.lifespan = "stopped"]
       ELSE IF raised
       THEN \E left \in {"open", "closed"} :
                subscription' = [subscription EXCEPT
                    !.connection = left,
                    !.disconnect = disconnect_outcome(TRUE), !.lifespan = "stopped"]
       ELSE subscription' = [subscription EXCEPT
                !.connection = "closed",
                !.disconnect = disconnect_outcome(FALSE), !.lifespan = "stopped"]
    /\ UNCHANGED <<dbvars, pc, request, order, outbox_event, tx, result, nextId, now,
                   broker, brokerUp, channel, published, consumer, call, dispatcher, conn>>

\* One order, one consumer task handling feedback, and the service shutting
\* down at any moment.
NextShutdown ==
    \/ nextId <= MaxRequests /\ PlaceUnitOrder("h1")
    \/ ReserveStock("h1")
    \/ InsertOrder("h1")
    \/ InsertOutbox("h1")
    \/ CommitTx("h1")
    \/ Respond("h1")
    \/ \E feed \in Feeds, body \in FeedbackBodies : Receive("k1", feed, body)
    \/ UpdateStatus("k1")
    \/ UpdateStatusRaises("k1")
    \/ ProcessExit("k1")
    \/ Disconnect
    \/ \E raised \in BOOLEAN : CloseChannel(raised)
    \/ \E raised \in BOOLEAN : CloseConnection(raised)

SpecShutdown == Init /\ [][NextShutdown]_vars

\* A request handler placing unit orders and a task of the feedback consumer
\* handling one message after the other.
NextFeedback ==
    \/ nextId <= MaxRequests /\ PlaceUnitOrder("h1")
    \/ ReserveStock("h1")
    \/ InsertOrder("h1")
    \/ InsertOutbox("h1")
    \/ CommitTx("h1")
    \/ Respond("h1")
    \/ \E feed \in Feeds, body \in FeedbackBodies : Receive("k1", feed, body)
    \/ UpdateStatus("k1")
    \/ UpdateStatusRaises("k1")
    \/ ProcessExit("k1")

SpecFeedback == Init /\ [][NextFeedback]_vars

\* The broker delivers the same message to both tasks (at-least-once delivery),
\* each once; update_status does not fail.
ReceiveCopy(k) ==
    /\ consumer[k] = NoDelivery
    /\ \E feed \in Feeds, body \in FeedbackBodies :
           /\ \A j \in Consumers \ {k} :
                  \/ consumer[j] = NoDelivery
                  \/ consumer[j].feed = feed /\ consumer[j].body = body
           /\ Receive(k, feed, body)

NextRedelivery ==
    \/ nextId <= MaxRequests /\ PlaceUnitOrder("h1")
    \/ ReserveStock("h1")
    \/ InsertOrder("h1")
    \/ InsertOutbox("h1")
    \/ CommitTx("h1")
    \/ Respond("h1")
    \/ \E k \in Consumers : ReceiveCopy(k)
    \/ \E k \in Consumers : UpdateStatus(k)
    \/ \E k \in Consumers : ProcessExit(k)

SpecRedelivery == Init /\ [][NextRedelivery]_vars

\* Two messages are delivered one after the other: the second task takes its
\* message when the first one's has been handled; update_status does not fail.
ReceiveInTurn(k) ==
    /\ consumer[k] = NoDelivery
    /\ k = "k2" => consumer["k1"].fate # "none"
    /\ \E feed \in Feeds, body \in FeedbackBodies : Receive(k, feed, body)

NextSequence ==
    \/ nextId <= MaxRequests /\ PlaceUnitOrder("h1")
    \/ ReserveStock("h1")
    \/ InsertOrder("h1")
    \/ InsertOutbox("h1")
    \/ CommitTx("h1")
    \/ Respond("h1")
    \/ \E k \in Consumers : ReceiveInTurn(k)
    \/ \E k \in Consumers : UpdateStatus(k)
    \/ \E k \in Consumers : ProcessExit(k)

SpecSequence == Init /\ [][NextSequence]_vars

\* Message bodies that carry the order id under exactly one of the two keys, and
\* the same message with the id under the other key.
OneKeyBodies ==
    {body \in [json : {"object"},
               orderId : {Null} \cup {Some(v) : v \in PayloadIds},
               order_id : {Null} \cup {Some(v) : v \in PayloadIds},
               status : {Null, Some("reserved"), Some("rejected")}] :
         (body.orderId = Null) # (body.order_id = Null)}

OtherCasing(body) == [body EXCEPT !.orderId = body.order_id, !.order_id = body.orderId]

\* Two senders name the same order on the same feed, one under "orderId" and one
\* under "order_id"; each task takes one of the two messages; update_status
\* does not fail.
ReceiveCasing(k) ==
    /\ consumer[k] = NoDelivery
    /\ \E feed \in Feeds, body \in OneKeyBodies :
           /\ \A j \in Consumers \ {k} :
                  \/ consumer[j] = NoDelivery
                  \/ consumer[j].feed = feed /\ consumer[j].body = OtherCasing(body)
           /\ Receive(k, feed, body)

NextCasing ==
    \/ nextId <= MaxRequests /\ PlaceUnitOrder("h1")
    \/ ReserveStock("h1")
    \/ InsertOrder("h1")
    \/ InsertOutbox("h1")
    \/ CommitTx("h1")
    \/ Respond("h1")
    \/ \E k \in Consumers : ReceiveCasing(k)
    \/ \E k \in Consumers : UpdateStatus(k)
    \/ \E k \in Consumers : ProcessExit(k)

SpecCasing == Init /\ [][NextCasing]_vars

(***************************************************************************)
(* Properties.                                                             *)
(***************************************************************************)

RECURSIVE SumQuantity(_)
\* The sum of the quantities of the committed orders whose ids are in ids.
SumQuantity(ids) ==
    IF ids = {} THEN 0
    ELSE LET id == CHOOSE x \in ids : TRUE
         IN orders[id].quantity + SumQuantity(ids \ {id})

OrdersOf(product_id) == {id \in DOMAIN orders : orders[id].product_id = product_id}

\* The handlers whose transaction is open.
InTransaction(h) == tx[h].state = "started"

\* C1: whatever the number and interleaving of create-order requests, for every
\* product the stock consumed so far (initial stock - current stock) is the sum
\* of the quantities of the persisted orders for that product.
C1_StockMatchesOrders ==
    \A p \in ProductIds : InitStock - stock[p] = SumQuantity(OrdersOf(p))

\* Two orders for one product are persisted and its stock is used up.
C1_Witness ==
    \E p \in ProductIds :
        /\ Cardinality(OrdersOf(p)) = 2
        /\ stock[p] = InitStock - 2

\* C2 (state part): while a transaction is open none of its writes is observable:
\* the committed stock is the value before the reservation, and neither its order
\* row nor its outbox row is committed.
C2_OpenTransactionInvisible ==
    \A h \in Handlers : InTransaction(h) =>
        /\ tx[h].stock_row # Null =>
               stock[order[h].product_id] = tx[h].stock_row[1] + order[h].quantity
        /\ order[h].id \notin DOMAIN orders
        /\ outbox_event[h].id \notin DOMAIN outbox

\* C2 (step part): a transaction that fails after its reservation succeeded
\* leaves the committed stock, orders and outbox as they were before the request.
C2_FailureRollsBack ==
    \A h \in Handlers :
        (/\ InTransaction(h)
         /\ tx[h].stock_row # Null
         /\ tx'[h].state = "rolledback")
        => /\ stock' = stock
           /\ stock'[order[h].product_id] = tx[h].stock_row[1] + order[h].quantity
           /\ orders' = orders
           /\ outbox' = outbox
           /\ order[h].id \notin DOMAIN orders'
           /\ outbox_event[h].id \notin DOMAIN outbox'

\* C2: the order-commit transaction is all-or-nothing: a failure of the order
\* insert or the outbox insert after the reservation restores the pre-request
\* stock and leaves no order row and no outbox row, and no partial state of an
\* open transaction is observable.
C2_AllOrNothing == []C2_OpenTransactionInvisible /\ [][C2_FailureRollsBack]_vars

\* A transaction was rolled back after it had reserved stock and inserted the
\* order, and the committed stock is the initial one.
C2_Witness ==
    \E h \in Handlers :
        /\ tx[h].state = "rolledback"
        /\ result[h] = "error"
        /\ tx[h].stock_row # Null
        /\ tx[h].order_row
        /\ stock[order[h].product_id] = InitStock

EventsOf(order_id) ==
    {e \in DOMAIN outbox : /\ outbox[e].aggregate_id = order_id
                           /\ outbox[e].event_type = "order.created"}

\* C3: orders and order.created outbox events are in one-to-one correspondence:
\* every persisted order has exactly one outbox event whose aggregate_id, and
\* whose payload order_id, is the order's id, and every order.created event
\* refers to a persisted order.
C3_OrdersMatchEvents ==
    /\ \A id \in DOMAIN orders :
           /\ Cardinality(EventsOf(id)) = 1
           /\ \A e \in EventsOf(id) : outbox[e].event_data.order_id = id
    /\ \A e \in DOMAIN outbox :
           outbox[e].event_type = "order.created" =>
               /\ outbox[e].aggregate_id \in DOMAIN orders
               /\ outbox[e].event_data.order_id = outbox[e].aggregate_id

\* Two orders are persisted and two outbox events with them.
C3_Witness ==
    /\ Cardinality(DOMAIN orders) = 2
    /\ Cardinality(DOMAIN outbox) = 2

\* C4 (step part): when the reservation statement of a request runs and the
\* requested quantity exceeds the available stock, the request ends with the
\* insufficient-stock error and stock, orders and outbox are unchanged.
C4_InsufficientStockStep ==
    \A h \in Handlers :
        (/\ pc[h] = "inTx"
         /\ pc'[h] # "inTx"
         /\ result'[h] # "error"
         /\ order[h].quantity > stock[order[h].product_id])
        => /\ pc'[h] = "done"
           /\ result'[h] = "insufficient_stock"
           /\ tx'[h].state = "rolledback"
           /\ stock' = stock
           /\ orders' = orders
           /\ outbox' = outbox

\* C4 (state part): a request that ended with the insufficient-stock error has
\* no order row and no outbox row.
C4_NothingPersisted ==
    \A h \in Handlers : result[h] = "insufficient_stock" =>
        /\ order[h].id \notin DOMAIN orders
        /\ outbox_event[h].id \notin DOMAIN outbox
        /\ EventsOf(order[h].id) = {}

\* C4: a create-order request whose quantity exceeds the available stock at
\* reservation time fails with the insufficient-stock error, creates no order row
\* and no outbox row, and leaves the stock unchanged.
C4_InsufficientStock == []C4_NothingPersisted /\ [][C4_InsufficientStockStep]_vars

\* A request for more than the available stock ended with insufficient stock.
C4_Witness ==
    \E h \in Handlers :
        /\ result[h] = "insufficient_stock"
        /\ order[h].quantity > stock[order[h].product_id]
        /\ stock[order[h].product_id] > 0

Committed == {h \in Handlers : pc[h] = "done" /\ result[h] = "ok"}
Refused == {h \in Handlers : pc[h] = "done" /\ result[h] = "insufficient_stock"}
Reserving == {h \in Handlers : InTransaction(h) /\ tx[h].stock_row # Null}
NumHandlers == Cardinality(Handlers)

\* C5: N concurrent create-order transactions each ask for 1 unit of a product
\* whose stock is S: in every interleaving the transactions that hold or have
\* committed a reservation never exceed S, and when all have ended exactly
\* min(N, S) committed, the other N - min(N, S) failed with insufficient stock and
\* the stock is S - min(N, S), which for N > S is S commits, N - S failures and
\* stock 0.
C5_ConcurrentReservations ==
    /\ Cardinality(Committed) + Cardinality(Reserving) <= RaceStock
    /\ Cardinality(Reserving) <= 1
    /\ (\A h \in Handlers : pc[h] = "done") =>
           /\ Cardinality(Committed) = Min(NumHandlers, RaceStock)
           /\ Cardinality(Refused) = NumHandlers - Min(NumHandlers, RaceStock)
           /\ stock["p1"] = RaceStock - Min(NumHandlers, RaceStock)
           /\ Cardinality(OrdersOf("p1")) = Min(NumHandlers, RaceStock)

\* All N transactions have ended, N > S, some were refused and the stock is 0.
C5_Witness ==
    /\ \A h \in Handlers : pc[h] = "done"
    /\ NumHandlers > RaceStock
    /\ Cardinality(Committed) = RaceStock
    /\ Refused # {}
    /\ stock["p1"] = 0

\* C6: the available stock of a product is never negative in a committed state.
C6_StockNeverNegative == \A p \in ProductIds : stock[p] >= 0

\* C7: an event that was never marked processed is PENDING after fewer than
\* max_retries increment_retry calls, and after exactly max_retries calls it is
\* FAILED and get_pending_events no longer returns it.
C7_RetryBound ==
    \A e \in DOMAIN outbox : outbox[e].processed_at = Null =>
        /\ outbox[e].retry_count < outbox[e].max_retries =>
               outbox[e].status = "PENDING"
        /\ outbox[e].retry_count = outbox[e].max_retries =>
               /\ outbox[e].status = "FAILED"
               /\ ~ReturnedAsPending(e)

\* C8: once an outbox event is FAILED, no later mark_as_processed or
\* increment_retry call changes its status.
C8_FailedIsPermanent ==
    [][\A e \in DOMAIN outbox :
           outbox[e].status = "FAILED" => outbox'[e].status = "FAILED"]_vars

\* C9 (step part): no step of a create-order request changes what the broker
\* holds.
C9_NoPublishStep == (\E h \in Handlers : pc'[h] # pc[h]) => broker' = broker

\* C9 (state part): a transaction whose statements all ran can commit, whether
\* the broker is reachable or not.
C9_CommitNeedsNoBroker ==
    \A h \in Workers : pc[h] = "outboxInserted" => ENABLED CommitTx(h)

C10_ReservationSucceeds ==
    \A h \in Handlers :
        (/\ pc[h] = "inTx"
         /\ pc'[h] # "inTx"
         /\ result'[h] # "error"
         /\ order[h].quantity <= stock[order[h].product_id])
        => pc'[h] = "reserved"

\* C10 (commit): the request that commits returns a PENDING order with the
\* request's customer, product, quantity and amount, the stock goes from s to
\* s - q, and exactly one outbox event is added: order.created, PENDING, with
\* retry_count 0, for that order.
C10_CommitStep ==
    \A h \in Handlers :
        (InTransaction(h) /\ tx'[h].state = "committed")
        => LET o == order[h]
               q == request[h].quantity
               p == request[h].product_id
               added == DOMAIN outbox' \ DOMAIN outbox
           IN /\ pc'[h] = "done"
              /\ result'[h] = "ok"
              /\ o.status = "PENDING"
              /\ o.customer_id = request[h].customer_id
              /\ o.product_id = p
              /\ o.quantity = q
              /\ o.total_amount = request[h].total_amount
              /\ o.id \notin DOMAIN orders
              /\ DOMAIN orders' = DOMAIN orders \cup {o.id}
              /\ orders'[o.id] = o
              /\ stock[p] >= q
              /\ stock' = [stock EXCEPT ![p] = stock[p] - q]
              /\ Cardinality(added) = 1
              /\ \A e \in added :
                     /\ outbox'[e].event_type = "order.created"
                     /\ outbox'[e].status = "PENDING"
                     /\ outbox'[e].retry_count = 0
                     /\ outbox'[e].aggregate_id = o.id
              /\ \A e \in DOMAIN outbox : outbox'[e] = outbox[e]

\* C10: a valid create-order request of quantity q against a product with stock
\* s >= q returns a PENDING order carrying the request's customer, product,
\* quantity and amount, leaves the stock at s - q and adds exactly one PENDING
\* order.created outbox event with retry_count 0.
C10_CreateOrderSucceeds == [][C10_ReservationSucceeds /\ C10_CommitStep]_vars

\* A request for 2 units was committed against a stock of InitStock.
C10_Witness ==
    \E h \in Handlers :
        /\ result[h] = "ok"
        /\ request[h].quantity = 2
        /\ stock[request[h].product_id] = InitStock - 2
        /\ orders[order[h].id].status = "PENDING"
        /\ Cardinality(EventsOf(order[h].id)) = 1

\* The business rules of a create-order request (amounts in cents).
ViolatesBusinessRule(req) ==
    \/ req.quantity <= 0
    \/ req.quantity > 1000
    \/ req.total_amount <= 0
    \/ req.total_amount > 100000 * 100
    \/ req.customer_id = NoId
    \/ req.product_id = NoId

\* C11 (step part): the step that takes up a request violating a business rule
\* ends it with the invalid-order-data error, begins no transaction, builds no
\* order and leaves stock, orders and outbox unchanged.
C11_RejectStep ==
    \A h \in Handlers :
        (/\ pc[h] = "idle"
         /\ pc'[h] # "idle"
         /\ ViolatesBusinessRule(request'[h]))
        => /\ pc'[h] = "done"
           /\ result'[h] = "invalid"
           /\ tx'[h] = NoTx
           /\ order'[h] = NoOrder
           /\ outbox_event'[h] = NoEvent
           /\ stock' = stock
           /\ orders' = orders
           /\ outbox' = outbox

\* C11 (state part): a handler serving a request that violates a business rule
\* never has a transaction, open or ended: the order repository was not called.
C11_RepositoryNotCalled ==
    \A h \in Handlers :
        (pc[h] # "idle" /\ ViolatesBusinessRule(request[h]))
        => /\ result[h] = "invalid"
           /\ tx[h].state = "none"

C18_PublishNeverRaises ==
    /\ published.returned \in {"none", "True", "False"}
    /\ published.failed_at # "none" => published.returned = "False"
    /\ published.returned = "True" =>
           /\ published.failed_at = "none"
           /\ Len(broker) > 0
           /\ broker[Len(broker)].message_id = str(published.event_id)

\* A call failed at connect while the broker already held a message.
C18_Witness ==
    /\ published.returned = "False"
    /\ published.failed_at = "connect"
    /\ Len(broker) > 0

\* C19: every message publish_event produced carries the message id of its
\* outbox event and persistent delivery mode; messages of the same event have
\* the same identity and messages of distinct events have distinct message ids.
C19_MessageIdentity ==
    /\ \A i \in DOMAIN broker :
           /\ broker[i].delivery_mode = "PERSISTENT"
           /\ \E e \in DOMAIN outbox :
                  /\ broker[i].message_id = str(e)
                  /\ broker[i].headers.aggregate_id = str(outbox[e].aggregate_id)
                  /\ broker[i].body = outbox[e].event_data
    /\ \A i, j \in DOMAIN broker :
           (broker[i].message_id = broker[j].message_id)
               <=> (broker[i].body.order_id = broker[j].body.order_id)

\* The same event was published twice.
C19_Witness ==
    /\ Len(broker) >= 2
    /\ broker[1].message_id = broker[2].message_id
    /\ published.returned = "True"

\* C20: every message for which publish_event returned True was sent to the
\* durable topic exchange with the event's type as routing key.
C20_SentToTopicExchange ==
    \A i \in DOMAIN broker :
        /\ broker[i].exchange = TopicExchange
        /\ broker[i].routing_key = broker[i].headers.event_type

\* The order id a message body carries, or Null.
BodyOrderId(body) == IF body.orderId # Null THEN body.orderId ELSE body.order_id

\* A well-formed message of the feed for an order that exists.
WellFormedFor(feed, body) ==
    /\ body.json = "object"
    /\ BodyOrderId(body) # Null
    /\ BodyOrderId(body)[1] \in DOMAIN orders
    /\ body.status = Some(feed)

\* The status the claim gives each feed.
FeedStatus(feed) == IF feed = "reserved" THEN "COMPLETED" ELSE "FAILED"

\* C12 (receive): a well-formed message for an existing order goes on to
\* update_status with the status of its feed.
C12_ReceiveStep ==
    \A k \in Consumers :
        (/\ consumer[k].pc = "idle"
         /\ consumer'[k].pc # "idle"
         /\ WellFormedFor(consumer'[k].feed, consumer'[k].body))
        => /\ consumer'[k].pc = "updating"
           /\ consumer'[k].order_uuid = BodyOrderId(consumer'[k].body)
           /\ consumer'[k].new_status = FeedStatus(consumer'[k].feed)

\* C12 (update): when update_status returns for such a message the order has
\* the status of the feed, and no other order changed.
C12_UpdateStep ==
    \A k \in Consumers :
        (/\ consumer[k].pc = "updating"
         /\ consumer'[k].exit = "return"
         /\ WellFormedFor(consumer[k].feed, consumer[k].body))
        => LET id == BodyOrderId(consumer[k].body)[1]
           IN /\ orders'[id].status = FeedStatus(consumer[k].feed)
              /\ consumer'[k].success = Some(TRUE)
              /\ \A other \in DOMAIN orders \ {id} : orders'[other] = orders[other]

\* C12 (feeds): a step of a task that changes an order's status sets COMPLETED
\* on the reserved feed and FAILED on the rejected feed.
C12_FeedStep ==
    \A k \in Consumers :
        consumer'[k] # consumer[k] =>
            \A id \in DOMAIN orders :
                orders'[id].status # orders[id].status =>
                    orders'[id].status = FeedStatus(consumer[k].feed)

\* C12: a well-formed feedback message for an existing PENDING order sets its
\* status to COMPLETED on the reserved feed with status "reserved" and to FAILED
\* on the rejected feed with status "rejected"; the reserved feed never produces
\* FAILED and the rejected feed never produces COMPLETED.
C12_FeedbackSetsStatus == [][C12_ReceiveStep /\ C12_UpdateStep /\ C12_FeedStep]_vars

\* A "rejected" message of the rejected feed was handled and its order is FAILED
\* while another order is still PENDING.
C12_Witness ==
    \E k \in Consumers :
        /\ consumer[k].fate = "acked"
        /\ consumer[k].feed = "rejected"
        /\ consumer[k].success = Some(TRUE)
        /\ orders[consumer[k].order_uuid[1]].status = "FAILED"
        /\ \E id \in DOMAIN orders : orders[id].status = "PENDING"

Handled == {k \in Consumers : consumer[k].fate # "none"}
InHandler == {k \in Consumers : consumer[k].pc # "idle"}

\* C13 (state part): once a message was delivered once or twice and no delivery
\* is in progress, the order it names has the status of the feed: the same
\* status after the second delivery as after the first.
C13_SameFinalStatus ==
    (Handled # {} /\ InHandler = {}) =>
        \A k \in Handled :
            WellFormedFor(consumer[k].feed, consumer[k].body) =>
                orders[BodyOrderId(consumer[k].body)[1]].status
                    = FeedStatus(consumer[k].feed)

\* C13 (step part): a delivery changes an order only by setting the status of
\* its feed on the order it names; the steps of a message that names no
\* existing order or does not match its feed change no order.
C13_DeliveryStep ==
    \A k \in Consumers :
        consumer'[k] # consumer[k] =>
            \/ orders' = orders
            \/ /\ WellFormedFor(consumer[k].feed, consumer[k].body)
               /\ orders' = [orders EXCEPT ![BodyOrderId(consumer[k].body)[1]].status =
                                FeedStatus(consumer[k].feed)]

\* C13: feedback handling is idempotent: delivering the same message twice, in
\* any interleaving of the two deliveries, leaves the order in the same final
\* status as delivering it once.
C13_Idempotent == []C13_SameFinalStatus /\ [][C13_DeliveryStep]_vars

\* Both deliveries of a message that updates an order have been handled.
C13_Witness ==
    /\ Handled = Consumers
    /\ InHandler = {}
    /\ \A k \in Consumers :
           /\ consumer[k].success = Some(TRUE)
           /\ orders[consumer[k].order_uuid[1]].status = "COMPLETED"

\* C14: a feedback message that leads to a status update is acknowledged only
\* after update_status has returned: whenever it is acknowledged the call has
\* returned, and the status it set is stored if the order exists.
C14_AckAfterUpdate ==
    \A k \in Consumers :
        (consumer[k].fate = "acked" /\ consumer[k].order_uuid # Null)
        => /\ consumer[k].exit = "return"
           /\ consumer[k].success # Null
           /\ consumer[k].order_uuid[1] \in DOMAIN orders =>
                  /\ consumer[k].success = Some(TRUE)
                  /\ orders[consumer[k].order_uuid[1]].status = consumer[k].new_status

\* A message was acknowledged after its update was stored.
C14_Witness ==
    \E k \in Consumers :
        /\ consumer[k].fate = "acked"
        /\ consumer[k].success = Some(TRUE)
        /\ orders[consumer[k].order_uuid[1]].status = "COMPLETED"

\* C15: a message whose update_status raised is not acknowledged and goes back
\* to its queue for redelivery; it is never discarded without its update.
C15_FailedUpdateIsRedelivered ==
    \A k \in Consumers :
        (/\ consumer[k].order_uuid # Null
         /\ consumer[k].exit = "raise"
         /\ consumer[k].fate # "none")
        => consumer[k].fate = "requeued"

\* A malformed message: bytes that are not JSON, no order id, or an order id
\* that is not the text of a UUID.
Malformed(body) ==
    \/ body.json = "unparseable"
    \/ /\ body.json = "object"
       /\ \/ BodyOrderId(body) = Null
          \/ BodyOrderId(body)[1] \in {NotAUuid, NotAString}

\* C16: a malformed feedback message is acknowledged and dropped: the handler
\* returns without calling update_status and without raising, the message is
\* acknowledged (not rejected, not requeued) and the task takes the next message.
C16_MalformedIsAcked ==
    \A k \in Consumers :
        (consumer[k].feed # "none" /\ Malformed(consumer[k].body))
        => /\ consumer[k].order_uuid = Null
           /\ consumer[k].exit \in {"none", "return"}
           /\ consumer[k].fate \in {"none", "acked"}

\* C17: inventory feedback drives only PENDING->COMPLETED and PENDING->FAILED:
\* the status of an order that is not PENDING never changes.
C17_OnlyFromPending ==
    [][\A id \in DOMAIN orders :
           orders[id].status # "PENDING" => orders'[id].status = orders[id].status]_vars

(***************************************************************************)
(* C25  reserve_stock(p, q) returns true and lowers the stock of p by      *)
(* exactly q when p has a row whose stock is at least q; otherwise it      *)
(* returns false, raises nothing and leaves every stock unchanged.         *)
(***************************************************************************)
C25_ReserveStep(p, q) ==
    IF p \in DOMAIN stock /\ stock[p] >= q
    THEN /\ call'.returned = "True"
         /\ stock' = [stock EXCEPT ![p] = stock[p] - q]
    ELSE /\ call'.returned = "False"
         /\ stock' = stock

C25_ReserveIffEnough ==
    [][\A p \in ProductIds \cup {MissingProduct}, q \in Quantities :
           ReserveStockOp(p, q) => C25_ReserveStep(p, q)]_vars

\* reserve_stock took a unit of p1 and was then refused two units of what is left.
C25_Witness ==
    /\ call.op = "reserve_stock"
    /\ call.arg = <<"p1", 2>>
    /\ call.returned = "False"
    /\ stock["p1"] = 1
    /\ orders = <<>>

(***************************************************************************)
(* C23  mark_as_processed is idempotent: on an existing event it stores    *)
(* status PROCESSED and returns true, and a second call leaves the event   *)
(* PROCESSED as the first did; for an unknown event id it returns false    *)
(* and the store is unchanged.                                             *)
(***************************************************************************)
C23_MarkStep(e) ==
    IF e \in DOMAIN outbox
    THEN /\ call'.returned = "True"
         /\ DOMAIN outbox' = DOMAIN outbox
         /\ outbox'[e].status = "PROCESSED"
         /\ \A o \in DOMAIN outbox \ {e} : outbox'[o] = outbox[o]
         /\ outbox[e].status = "PROCESSED" =>
                outbox' = [outbox EXCEPT ![e].processed_at = outbox'[e].processed_at]
    ELSE /\ call'.returned = "False"
         /\ outbox' = outbox

C23_MarkIdempotent ==
    [][\A e \in EventIds :
           MarkAsProcessed(e) => C23_MarkStep(e)]_vars

\* The second of two calls in a row on the same stored event.
C23_Witness ==
    /\ call.op = "mark_as_processed"
    /\ call.again
    /\ call.returned = "True"
    /\ call.arg \in DOMAIN outbox
    /\ outbox[call.arg].status = "PROCESSED"

(***************************************************************************)
(* C22  get_pending_events(limit) returns only PENDING events, each once,  *)
(* in ascending order of creation time, at most limit of them, and they    *)
(* are the limit oldest PENDING events.                                    *)
(***************************************************************************)
C22_OldestPending(events, limit) ==
    /\ \A i \in DOMAIN events :
           /\ events[i] \in DOMAIN outbox
           /\ outbox[events[i]].status = "PENDING"
    /\ \A i, j \in DOMAIN events :
           i < j => /\ events[i] # events[j]
                    /\ outbox[events[i]].created_at <= outbox[events[j]].created_at
    /\ Len(events) <= limit
    /\ \A e \in DOMAIN outbox :
           outbox[e].status = "PENDING" /\ e \notin Range(events) =>
               /\ Len(events) = limit
               /\ \A i \in DOMAIN events :
                      outbox[events[i]].created_at <= outbox[e].created_at

C22_PendingOldestFirst ==
    [][\A limit \in 0..MaxRequests :
           GetPendingEvents(limit) => C22_OldestPending(call'.events, limit)]_vars

\* A call returned the one event still PENDING and left out an older event
\* that is PROCESSED.
C22_Witness ==
    /\ call.op = "get_pending_events"
    /\ call.events = <<EventId(2)>>
    /\ EventId(1) \in DOMAIN outbox
    /\ outbox[EventId(1)].status = "PROCESSED"
    /\ outbox[EventId(2)].status = "PENDING"

(***************************************************************************)
(* C24  One failing outbox event never blocks the others: with the         *)
(* dispatcher running, every PENDING event eventually becomes PROCESSED or *)
(* FAILED, and every PENDING event whose publish succeeds eventually       *)
(* becomes PROCESSED, whichever events keep failing.                       *)
(***************************************************************************)
C24_Pending(e) == e \in DOMAIN outbox /\ outbox[e].status = "PENDING"

C24_Settled(e) == e \in DOMAIN outbox /\ outbox[e].status \in {"PROCESSED", "FAILED"}

C24_Publishable(e) == dispatcher.pc # "start" /\ e \notin dispatcher.failing

C24_Processed(e) == e \in DOMAIN outbox /\ outbox[e].status = "PROCESSED"

C24_NoEventBlocksOthers ==
    \A e \in EventIds :
        /\ C24_Pending(e) ~> C24_Settled(e)
        /\ (C24_Pending(e) /\ C24_Publishable(e)) ~> C24_Processed(e)

\* The oldest event failed every publish and is FAILED; the event created after
\* it is PROCESSED.
C24_Witness ==
    /\ EventId(1) \in dispatcher.failing
    /\ C24_Settled(EventId(1))
    /\ outbox[EventId(1)].status = "FAILED"
    /\ C24_Processed(EventId(2))
    /\ outbox[EventId(1)].created_at < outbox[EventId(2)].created_at

(***************************************************************************)
(* C21  get_connection makes at most 3 attempts to acquire a connection,   *)
(* sleeps 0.1 s after the first failed attempt and 0.2 s after the second, *)
(* raises the error of the third failed attempt to the caller, makes no    *)
(* further attempt once a connection was acquired, and always ends.        *)
(***************************************************************************)
C21_Backoff == <<InitialRetryDelay, 2 * InitialRetryDelay>>

C21_AttemptsBounded(h) ==
    /\ conn[h].attempt <= 2
    /\ conn[h].slept = SubSeq(C21_Backoff, 1, conn[h].attempt)
    /\ conn[h].pc = "sleeping" => conn[h].attempt < 2
    /\ conn[h].error = "TooManyConnectionsError" =>
           /\ conn[h].pc = "raised"
           /\ conn[h].attempt = 2
           /\ conn[h].slept = C21_Backoff

C21_SuccessEndsRetrying(h) ==
    conn[h].pc = "yielded" => conn'[h].pc \in {"yielded", "idle"}

C21_Trying(h) == conn[h].pc \in {"acquiring", "sleeping"}

C21_Over(h) == conn[h].pc \in {"yielded", "raised"}

C26_Mismatch(k) ==
    /\ consumer[k].feed # "none"
    /\ consumer[k].body.json = "object"
    /\ consumer[k].body.status # Some(consumer[k].feed)

C26_NotUpdated ==
    \A k \in Consumers :
        C26_Mismatch(k) =>
            /\ consumer[k].pc \in {"exiting", "idle"}
            /\ consumer[k].order_uuid = Null
            /\ consumer[k].success = Null
            /\ consumer[k].exit = "return"
            /\ consumer[k].pc = "idle" => consumer[k].fate = "acked"

C26_MismatchStep ==
    \A k \in Consumers :
        (consumer'[k] # consumer[k] /\ C26_Mismatch(k)') => orders' = orders

C26_MismatchIsAckedUnchanged == []C26_NotUpdated /\ [][C26_MismatchStep]_vars

\* A "rejected" message on the reserved feed named a stored order and was
\* acknowledged; the order is PENDING as before.
C26_Witness ==
    \E k \in Consumers :
        /\ consumer[k].feed = "reserved"
        /\ consumer[k].body.status = Some("rejected")
        /\ consumer[k].body.order_id # Null
        /\ consumer[k].body.order_id[1] \in DOMAIN orders
        /\ orders[consumer[k].body.order_id[1]].status = "PENDING"
        /\ consumer[k].fate = "acked"

(***************************************************************************)
(* C27  A well-formed feedback message whose order id matches no order:    *)
(* update_status returns false, the handler completes normally, the        *)
(* message is acknowledged and not redelivered, and no order is created or *)
(* changed.                                                                *)
(***************************************************************************)
C27_NamesNoOrder(k) ==
    /\ consumer[k].feed # "none"
    /\ consumer[k].body.json = "object"
    /\ BodyOrderId(consumer[k].body) = Some(UnknownOrder)
    /\ consumer[k].body.status = Some(consumer[k].feed)

\* update_status has returned (it did not raise for an infrastructure reason).
C27_Returned(k) == consumer[k].success # Null

C27_AckedNoUpdate ==
    \A k \in Consumers :
        C27_NamesNoOrder(k) =>
            /\ consumer[k].fate # "requeued"
            /\ C27_Returned(k) =>
                   /\ consumer[k].success = Some(FALSE)
                   /\ consumer[k].exit = "return"
                   /\ consumer[k].pc \in {"exiting", "idle"}
                   /\ consumer[k].pc = "idle" => consumer[k].fate = "acked"

C27_UnknownStep ==
    \A k \in Consumers :
        (consumer'[k] # consumer[k] /\ C27_NamesNoOrder(k)') => orders' = orders

C27_UnknownOrderIsAcked == []C27_AckedNoUpdate /\ [][C27_UnknownStep]_vars

\* The message named no order while an order was stored; it was acknowledged
\* after update_status returned false.
C27_Witness ==
    \E k \in Consumers :
        /\ C27_NamesNoOrder(k)
        /\ consumer[k].success = Some(FALSE)
        /\ consumer[k].fate = "acked"
        /\ orders # <<>>

(***************************************************************************)
(* C28  Handling a feedback message changes at most the status of the one  *)
(* order the message names: its other fields, every other order, every     *)
(* stock and every outbox event stay as they were.                         *)
(***************************************************************************)
C28_OnlyStatusOf(id) ==
    /\ DOMAIN orders' = DOMAIN orders
    /\ \A o \in DOMAIN orders :
           \/ orders'[o] = orders[o]
           \/ /\ o = id
              /\ orders'[o] = [orders[o] EXCEPT !.status = orders'[o].status]

C28_HandlingStep ==
    \A k \in Consumers :
        consumer'[k] # consumer[k] =>
            /\ stock' = stock
            /\ outbox' = outbox
            /\ IF consumer[k].pc = "updating"
               THEN C28_OnlyStatusOf(BodyOrderId(consumer[k].body)[1])
               ELSE orders' = orders

C28_OnlyNamedOrderStatus == [][C28_HandlingStep]_vars

\* Two orders are stored; the message named the first one, which is COMPLETED,
\* and the second one is PENDING.
C28_Witness ==
    \E k \in Consumers :
        /\ consumer[k].fate = "acked"
        /\ consumer[k].success = Some(TRUE)
        /\ consumer[k].body.order_id = Some(OrderId(1))
        /\ OrderId(2) \in DOMAIN orders
        /\ orders[OrderId(1)].status = "COMPLETED"
        /\ orders[OrderId(2)].status = "PENDING"

(***************************************************************************)
(* C29  A feedback message carrying the order id under "orderId" and one   *)
(* carrying the same id under "order_id" produce the same status update    *)
(* and the same acknowledgement.                                           *)
(***************************************************************************)
C29_Delivered == {k \in Consumers : consumer[k].feed # "none"}

C29_SameOutcome ==
    \A j, k \in C29_Delivered :
        /\ consumer[j].order_uuid = consumer[k].order_uuid
        /\ consumer[j].new_status = consumer[k].new_status
        /\ (consumer[j].pc = "idle" /\ consumer[k].pc = "idle") =>
               /\ consumer[j].success = consumer[k].success
               /\ consumer[j].exit = consumer[k].exit
               /\ consumer[j].fate = consumer[k].fate

\* Both messages were handled: each set the order COMPLETED and was acknowledged.
C29_Witness ==
    /\ C29_Delivered = Consumers
    /\ consumer["k1"].body.orderId # Null
    /\ consumer["k2"].body.order_id # Null
    /\ \A k \in Consumers :
           /\ consumer[k].fate = "acked"
           /\ consumer[k].success = Some(TRUE)
           /\ orders[consumer[k].order_uuid[1]].status = "COMPLETED"

(***************************************************************************)
(* C30  Inside the transaction the stock reservation comes first, then the *)
(* order insert, then the outbox insert: the order insert is executed only *)
(* after the reservation returned a row, the outbox insert only after the  *)
(* order insert, and after a failed reservation neither insert is          *)
(* executed.                                                               *)
(***************************************************************************)
C30_InOrder ==
    \A h \in Handlers :
        /\ tx[h].order_row => tx[h].stock_row # Null
        /\ tx[h].outbox_row => tx[h].order_row
        /\ result[h] = "insufficient_stock" =>
               /\ tx[h].stock_row = Null
               /\ ~tx[h].order_row
               /\ ~tx[h].outbox_row

C30_InsertStep ==
    \A h \in Handlers :
        /\ (~tx[h].order_row /\ tx'[h].order_row) =>
               /\ tx[h].state = "started"
               /\ tx[h].stock_row # Null
               /\ ~tx[h].outbox_row
        /\ (~tx[h].outbox_row /\ tx'[h].outbox_row) =>
               /\ tx[h].state = "started"
               /\ tx[h].order_row
        /\ (tx[h].stock_row = Null /\ tx'[h].stock_row # Null) =>
               /\ ~tx[h].order_row
               /\ ~tx[h].outbox_row

C30_ReserveThenOrderThenOutbox == []C30_InOrder /\ [][C30_InsertStep]_vars

\* One handler went through the three statements; another one's reservation
\* failed and it made no insert.
C30_Witness ==
    \E g, h \in Handlers :
        /\ tx[g].stock_row # Null
        /\ tx[g].order_row
        /\ tx[g].outbox_row
        /\ result[h] = "insufficient_stock"
        /\ ~tx[h].order_row

(***************************************************************************)
(* C31  A create-order request that names a product which has no row at    *)
(* lookup time is rejected before the transaction starts: no transaction   *)
(* is opened, no order is built, and stock, orders and outbox are          *)
(* unchanged.                                                              *)
(***************************************************************************)
C31_ProductMissing(req) == req.product_id \notin DOMAIN stock

C31_RejectStep ==
    \A h \in Handlers :
        (/\ pc[h] = "idle"
         /\ pc'[h] # "idle"
         /\ C31_ProductMissing(request'[h]))
        => /\ pc'[h] = "done"
           /\ result'[h] = "invalid"
           /\ tx'[h] = NoTx
           /\ order'[h] = NoOrder
           /\ outbox_event'[h] = NoEvent
           /\ stock' = stock
           /\ orders' = orders
           /\ outbox' = outbox

C31_NoTransaction ==
    \A h \in Handlers :
        (pc[h] # "idle" /\ C31_ProductMissing(request[h]))
        => /\ result[h] = "invalid"
           /\ tx[h].state = "none"

C31_MissingProductRejected == []C31_NoTransaction /\ [][C31_RejectStep]_vars

\* A request that keeps every limit but names a product with no row was
\* rejected while an order was stored.
C31_Witness ==
    \E h \in Handlers :
        /\ result[h] = "invalid"
        /\ validate_order_data(request[h])
        /\ request[h].product_id = MissingProduct
        /\ tx[h] = NoTx
        /\ orders # <<>>

(***************************************************************************)
(* C32  Order status follows last-write-wins: every matching feedback      *)
(* message overwrites the status of the order it names whatever that       *)
(* status is, so the status of an order is the one set by the last message *)
(* processed for it (a COMPLETED order that later receives a rejected      *)
(* message becomes FAILED).                                                *)
(***************************************************************************)
C32_Updated(k) == consumer[k].success = Some(TRUE)

\* Every update overwrites, whatever the status was.
C32_OverwriteStep ==
    \A k \in Consumers :
        (consumer[k].pc = "updating" /\ consumer'[k].pc # "updating"
            /\ consumer[k].order_uuid[1] \in DOMAIN orders)
        => orders'[consumer[k].order_uuid[1]].status = FeedStatus(consumer[k].feed)

\* The second message's status stands; the first one's stands while the second
\* has not updated the same order.
C32_LastStands ==
    /\ C32_Updated("k2") =>
           orders[consumer["k2"].order_uuid[1]].status = FeedStatus(consumer["k2"].feed)
    /\ (C32_Updated("k1") /\ ~(C32_Updated("k2")
                                 /\ consumer["k2"].order_uuid = consumer["k1"].order_uuid)) =>
           orders[consumer["k1"].order_uuid[1]].status = FeedStatus(consumer["k1"].feed)

C32_LastWriteWins == []C32_LastStands /\ [][C32_OverwriteStep]_vars

\* An order was set COMPLETED by a reserved message; the rejected message that
\* came after it made it FAILED.
C32_Witness ==
    /\ consumer["k1"].feed = "reserved"
    /\ C32_Updated("k1")
    /\ consumer["k2"].feed = "rejected"
    /\ C32_Updated("k2")
    /\ consumer["k2"].fate = "acked"
    /\ consumer["k2"].order_uuid = consumer["k1"].order_uuid
    /\ orders[consumer["k1"].order_uuid[1]].status = "FAILED"

\* C33: on shutdown the channel is closed before the connection, an error while
\* closing never leaves disconnect, and a message that was being handled when
\* disconnect was called ends either acknowledged with its status update made
\* or unacknowledged and requeued for redelivery.
C33_ClosedInOrder ==
    subscription.connection = "closed" => subscription.channel = "closed"

C33_ErrorSwallowed == subscription.disconnect # "raised"

C33_Settled(k) ==
    consumer[k].pc = "idle" =>
        \/ consumer[k].fate = "requeued"
        \/ /\ consumer[k].fate = "acked"
           /\ consumer[k].order_uuid # Null => consumer[k].success # Null

C33_CleanShutdown ==
    /\ C33_ClosedInOrder
    /\ C33_ErrorSwallowed
    /\ \A k \in subscription.inflight : C33_Settled(k)

\* C34: an event that was marked processed stays PROCESSED and is not returned
\* by get_pending_events, whatever increment_retry calls come after the mark.
C34_ProcessedIsFinal ==
    \A e \in DOMAIN outbox : outbox[e].processed_at # Null =>
        /\ outbox[e].status = "PROCESSED"
        /\ ~ReturnedAsPending(e)

\* C35: on every PENDING event the repository's increment_retry update and the
\* domain model's OutboxEvent.increment_retry give the same retry_count and the
\* same status.
C35_RetryStepsAgree ==
    \A e \in DOMAIN outbox : outbox[e].status = "PENDING" =>
        /\ increment_retry_row(outbox[e]).retry_count
               = OutboxEvent_increment_retry(outbox[e]).retry_count
        /\ increment_retry_row(outbox[e]).status
               = OutboxEvent_increment_retry(outbox[e]).status

\* C36: the retry_count of every outbox event is between 0 and its max_retries.
C36_RetryCountCapped ==
    \A e \in DOMAIN outbox :
        /\ 0 <= outbox[e].retry_count
        /\ outbox[e].retry_count <= outbox[e].max_retries

\* C37: an update_stock call that returns false leaves the stored stock as it
\* was before the call.
C37_UpdateStockStep ==
    \A product_id \in ProductIds, quantity \in Deltas :
        UpdateStock(product_id, quantity) /\ call'.returned = "False" =>
            stock' = stock

C37_FailureNotApplied == [][C37_UpdateStockStep]_vars

(***************************************************************************)
(* C38  When the product row is gone by the time the transaction runs its  *)
(* conditional stock update, the update matches no row, the request ends   *)
(* with the insufficient-stock error and the transaction is rolled back:   *)
(* no stock, order or outbox row is written.                               *)
(***************************************************************************)
C38_RowGone(h) == pc[h] = "inTx" /\ order[h].product_id \notin DOMAIN stock

C38_UpdateStep ==
    \A h \in Handlers :
        (C38_RowGone(h) /\ pc'[h] # pc[h])
        => /\ pc'[h] = "done"
           /\ result'[h] = "insufficient_stock"
           /\ tx'[h].state = "rolledback"
           /\ stock' = stock
           /\ orders' = orders
           /\ outbox' = outbox

C38_NothingWritten ==
    \A h \in Handlers :
        (pc[h] # "idle" /\ tx[h].state # "none"
         /\ order[h].product_id \notin DOMAIN stock /\ tx[h].stock_row = Null)
        => /\ order[h].id \notin DOMAIN orders
           /\ outbox_event[h].id \notin DOMAIN outbox
           /\ pc[h] \in {"inTx", "done"}

C38_VanishedProductFails == []C38_NothingWritten /\ [][C38_UpdateStep]_vars

\* No order was ever stored, so the stock was never short: the request failed
\* with the insufficient-stock error because the row was deleted after the
\* lookup.
C38_Witness ==
    \E h \in Handlers :
        /\ pc[h] = "done"
        /\ result[h] = "insufficient_stock"
        /\ order[h].product_id \notin DOMAIN stock
        /\ tx[h].state = "rolledback"
        /\ orders = <<>>
        /\ outbox = <<>>

(***************************************************************************)
(* C39  Whatever the broker's state at startup, once the service serves    *)
(* and the broker is reachable, the feedback for every stored order is     *)
(* eventually handled: the order leaves PENDING.                           *)
(***************************************************************************)
C39_Waiting(order_id) ==
    /\ subscription.lifespan = "serving"
    /\ brokerUp
    /\ order_id \in DOMAIN orders
    /\ orders[order_id].status = "PENDING"

C39_Handled(order_id) ==
    order_id \in DOMAIN orders /\ orders[order_id].status # "PENDING"

C39_FeedbackEventuallyConsumed ==
    \A order_id \in Served : C39_Waiting(order_id) ~> C39_Handled(order_id)

====
